---- MODULE Spec2Model ----
(***************************************************************************)
(* og-lambda: the capture routine takeScreenshot (src/src/screenshot.ts)   *)
(* and the Lambda handler with its configuration merge (src/src/cli.ts).   *)
(*                                                                         *)
(* Every `await` of the source is a pair of steps: the operation is begun  *)
(* (the promise is pending) and later it resolves or rejects.  The browser *)
(* library, the S3 client and the process environment are the environment  *)
(* of the program: their outcomes are chosen nondeterministically.         *)
(***************************************************************************)
EXTENDS Integers, Sequences, FiniteSets, TLC

(***************************************************************************)
(* JavaScript values, tagged by type.                                      *)
(***************************************************************************)
Undefined == [t |-> "undefined"]
NaN == [t |-> "NaN"]
Num(n) == [t |-> "number", n |-> n]
Str(s) == [t |-> "string", s |-> s]
Bool(b) == [t |-> "boolean", b |-> b]

\* ToBoolean: undefined, NaN, 0, "" and false are falsy.
Truthy(v) ==
    CASE v.t = "undefined" -> FALSE
      [] v.t = "NaN" -> FALSE
      [] v.t = "number" -> v.n # 0
      [] v.t = "boolean" -> v.b
      [] v.t = "string" -> v.s # ""

\* a || b
Or(a, b) == IF Truthy(a) THEN a ELSE b

\* Destructuring default `x = d`: d replaces undefined only.
Default(v, d) == IF v = Undefined THEN d ELSE v

\* v > 0 on a JavaScript number (NaN > 0 is false).
GreaterThanZero(v) == v.t = "number" /\ v.n > 0

(***************************************************************************)
(* Constants of the source.                                                *)
(***************************************************************************)
DEFAULT_WIDTH == 1200
DEFAULT_HEIGHT == 630
DEFAULT_QUALITY == 90
GOTO_TIMEOUT == 30000
SELECTOR_TIMEOUT == 30000
FUNCTION_TIMEOUT == 30000

NoArgs == [none |-> TRUE]

\* Mutant: the quality of the request is ignored, the default always used.
LocalsFixedQuality(o) ==
    [url |-> o.url,
     width |-> Default(o.width, Num(DEFAULT_WIDTH)),
     height |-> Default(o.height, Num(DEFAULT_HEIGHT)),
     waitForSelector |-> o.waitForSelector,
     waitForFunction |-> o.waitForFunction,
     waitForTimeout |-> Default(o.waitForTimeout, Num(0)),
     quality |-> Num(DEFAULT_QUALITY),
     fullPage |-> Default(o.fullPage, Bool(FALSE)),
     timezone |-> o.timezone]

\* The locals of takeScreenshot after destructuring `options`.
Locals(o) ==
    [url |-> o.url,
     width |-> Default(o.width, Num(DEFAULT_WIDTH)),
     height |-> Default(o.height, Num(DEFAULT_HEIGHT)),
     waitForSelector |-> o.waitForSelector,
     waitForFunction |-> o.waitForFunction,
     waitForTimeout |-> Default(o.waitForTimeout, Num(0)),
     quality |-> Default(o.quality, Num(DEFAULT_QUALITY)),
     fullPage |-> Default(o.fullPage, Bool(FALSE)),
     timezone |-> o.timezone]

\* Arguments of puppeteer.launch.
LaunchArgs(o) ==
    [defaultViewport |-> [width |-> Locals(o).width, height |-> Locals(o).height]]

\* Mutant: the navigation is given no timeout.
GotoArgsNoTimeout(o) ==
    [url |-> Locals(o).url, waitUntil |-> "networkidle0", timeout |-> 0]

\* Arguments of page.goto.
GotoArgs(o) ==
    [url |-> Locals(o).url, waitUntil |-> "networkidle0", timeout |-> GOTO_TIMEOUT]

\* Mutant: the clip is passed whatever fullPage says.
ScreenshotArgsAlwaysClip(o) ==
    [type |-> "jpeg",
     quality |-> Locals(o).quality,
     fullPage |-> Locals(o).fullPage,
     clip |-> [x |-> 0, y |-> 0,
               width |-> Locals(o).width, height |-> Locals(o).height]]

\* Arguments of page.screenshot.
ScreenshotArgs(o) ==
    [type |-> "jpeg",
     quality |-> Locals(o).quality,
     fullPage |-> Locals(o).fullPage,
     clip |-> IF Truthy(Locals(o).fullPage)
              THEN Undefined
              ELSE [x |-> 0, y |-> 0,
                    width |-> Locals(o).width, height |-> Locals(o).height]]

\* Control after the settle delay check: `if (waitForTimeout > 0)`.
AfterWaitForFunction(o) ==
    IF GreaterThanZero(Locals(o).waitForTimeout) THEN "setTimeout" ELSE "screenshot"

\* Control after the selector wait: `if (waitForFunction)`.
AfterWaitForSelector(o) ==
    IF Truthy(Locals(o).waitForFunction) THEN "waitForFunction" ELSE AfterWaitForFunction(o)

\* Mutant: the selector wait is not guarded.
AfterGotoUnguarded(o) == "waitForSelector"

\* Control after navigation: `if (waitForSelector)`.
AfterGoto(o) ==
    IF Truthy(Locals(o).waitForSelector) THEN "waitForSelector" ELSE AfterWaitForSelector(o)

\* Mutant: the timezone emulation is left out.
AfterEmulateMediaFeaturesNoTimezone(o) == "goto"

\* Control after the color-scheme emulation: `if (timezone)`.
AfterEmulateMediaFeatures(o) ==
    IF Truthy(Locals(o).timezone) THEN "emulateTimezone" ELSE "goto"

(***************************************************************************)
(* Errors raised by the collaborators.  The program never builds an error  *)
(* of its own in takeScreenshot: what a browser operation throws is what   *)
(* propagates.                                                             *)
(***************************************************************************)
Err(name, message) == [name |-> name, message |-> message]

ExecutablePathErrors == {Err("Error", "chromium: executable not found")}
LaunchErrors == {Err("Error", "Failed to launch the browser process")}
NewPageErrors == {Err("ProtocolError", "Target.createTarget failed")}
EmulateMediaFeaturesErrors == {Err("ProtocolError", "Emulation.setEmulatedMedia failed")}
EmulateTimezoneErrors == {Err("Error", "Invalid timezone ID")}
GotoErrors == {Err("TimeoutError", "Navigation timeout of 30000 ms exceeded"),
               Err("Error", "net::ERR_NAME_NOT_RESOLVED")}
WaitForSelectorErrors == {Err("TimeoutError", "Waiting for selector failed: 30000ms exceeded")}
WaitForFunctionErrors == {Err("TimeoutError", "Waiting failed: 30000ms exceeded")}
ScreenshotErrors == {Err("ProtocolError", "Page.captureScreenshot failed")}
CloseErrors == {Err("Error", "Browser.close failed")}

(***************************************************************************)
(* State.  Every variable but env, sessions and s3 is a function of the    *)
(* call: one entry per invocation in progress.                             *)
(***************************************************************************)
VARIABLES
    env,         \* process.env
    entry,       \* how the call entered: "none", "direct" (takeScreenshot) or "handler"
    options,     \* the ScreenshotOptions argument of takeScreenshot
    pc,          \* takeScreenshot: the operation at which control stands
    awaiting,    \* takeScreenshot: TRUE while the operation at pc is pending
    browser,     \* takeScreenshot: the local `browser` (0 is null, else a session id)
    completion,  \* takeScreenshot: the pending completion of the try block
    outcome,     \* takeScreenshot: what the returned promise settled with
    sessions,    \* the browser sessions, by id
    trace,       \* per call, the collaborator operations begun and settled, in order
    hpc,         \* handler: control position
    event,       \* handler: the event argument
    config,      \* handler: the result of getConfig
    result,      \* handler: what the returned promise settled with
    s3,          \* the PutObject commands the S3 service has received, in order
    cli,         \* the og-lambda command line process and the deployment it makes
    now,         \* the clock, in milliseconds
    times        \* per call, the clock at each entry of trace

vars == <<env, entry, options, pc, awaiting, browser, completion, outcome,
          sessions, trace, hpc, event, config, result, s3, cli, now, times>>

\* What takeScreenshot and the handler neither read nor write.
xVars == <<cli, now, times>>

tsVars == <<options, pc, awaiting, browser, completion, outcome, sessions, trace>>
hVars == <<hpc, event, config, result, s3>>

CallIds == DOMAIN pc

NoCompletion == [type |-> "normal"]
NoOutcome == [type |-> "pending"]
NoSession == [state |-> "none", closeCalls |-> 0]

(***************************************************************************)
(* Reading the history of a call.                                          *)
(***************************************************************************)
Positions(c, op, ev) ==
    {i \in 1..Len(trace[c]) : trace[c][i].op = op /\ trace[c][i].ev = ev}

Count(c, op, ev) == Cardinality(Positions(c, op, ev))

Begun(c, op) == Positions(c, op, "begin") # {}
Resolved(c, op) == Positions(c, op, "resolve") # {}
Rejected(c, op) == Positions(c, op, "reject") # {}

(***************************************************************************)
(* The three shapes of an awaited collaborator operation.                  *)
(***************************************************************************)
Begin(c, op, args) ==
    /\ pc[c] = op
    /\ ~awaiting[c]
    /\ awaiting' = [awaiting EXCEPT ![c] = TRUE]
    /\ trace' = [trace EXCEPT ![c] = Append(@, [op |-> op, ev |-> "begin", args |-> args])]
    /\ UNCHANGED pc

Resolve(c, op, next) ==
    /\ pc[c] = op
    /\ awaiting[c]
    /\ awaiting' = [awaiting EXCEPT ![c] = FALSE]
    /\ pc' = [pc EXCEPT ![c] = next]
    /\ trace' = [trace EXCEPT ![c] = Append(@, [op |-> op, ev |-> "resolve", args |-> NoArgs])]

\* Mutant: a rejected operation is tried again.
RejectRetry(c, op, e) ==
    /\ pc[c] = op
    /\ awaiting[c]
    /\ Count(c, op, "begin") < 2
    /\ awaiting' = [awaiting EXCEPT ![c] = FALSE]
    /\ UNCHANGED <<pc, completion>>
    /\ trace' = [trace EXCEPT ![c] = Append(@, [op |-> op, ev |-> "reject", args |-> e])]

\* A rejected await inside `try` abandons the block: control goes to `finally`
\* with the error as the pending completion.
Reject(c, op, e) ==
    /\ pc[c] = op
    /\ awaiting[c]
    /\ awaiting' = [awaiting EXCEPT ![c] = FALSE]
    /\ pc' = [pc EXCEPT ![c] = "finally"]
    /\ completion' = [completion EXCEPT ![c] = [type |-> "throw", error |-> e]]
    /\ trace' = [trace EXCEPT ![c] = Append(@, [op |-> op, ev |-> "reject", args |-> e])]

(***************************************************************************)
(* takeScreenshot                                                          *)
(***************************************************************************)
\* The viewport and quality a direct caller may ask for.
SizeSet ==
    {[width |-> Undefined, height |-> Undefined, quality |-> Undefined],
     [width |-> Num(800), height |-> Undefined, quality |-> Undefined],
     [width |-> Num(800), height |-> Num(600), quality |-> Num(80)]}

OptionsSet ==
    {[url |-> Str("https://example.com"),
      width |-> sz.width, height |-> sz.height, quality |-> sz.quality,
      waitForSelector |-> sel, waitForFunction |-> fn, waitForTimeout |-> ms,
      fullPage |-> fp, timezone |-> tz] :
        sz \in SizeSet,
        sel \in {Undefined, Str(""), Str("#chart")},
        fn \in {Undefined, Str(""), Str("window.chartReady")},
        ms \in {Undefined, Num(0), Num(500)},
        fp \in {Undefined, Bool(FALSE), Bool(TRUE)},
        tz \in {Undefined, Str("America/New_York")}}

\* A caller other than the handler calls the exported takeScreenshot(options),
\* with options drawn from S.
TakeScreenshotCallWith(c, S) ==
    /\ entry[c] = "none"
    /\ \E o \in S :
          options' = [options EXCEPT ![c] = o]
    /\ entry' = [entry EXCEPT ![c] = "direct"]
    /\ pc' = [pc EXCEPT ![c] = "executablePath"]
    /\ UNCHANGED <<env, awaiting, browser, completion, outcome, sessions, trace>>
    /\ UNCHANGED hVars

TakeScreenshotCall(c) == TakeScreenshotCallWith(c, OptionsSet)

\* await chromium.executablePath(), evaluated for the argument of launch.
ExecutablePath(c) ==
    /\ \/ Begin(c, "executablePath", NoArgs) /\ UNCHANGED completion
       \/ Resolve(c, "executablePath", "launch") /\ UNCHANGED completion
       \/ \E e \in ExecutablePathErrors : Reject(c, "executablePath", e)
    /\ UNCHANGED <<env, entry, options, browser, outcome, sessions>>
    /\ UNCHANGED hVars

\* Mutant: `browser` is a variable of the module, not of the call: every call
\* in progress sees the session launched last.
LaunchSharedBrowser(c) ==
    /\ \/ /\ Begin(c, "launch", LaunchArgs(options[c]))
          /\ UNCHANGED <<completion, browser, sessions>>
       \/ /\ Resolve(c, "launch", "newPage")
          /\ browser' = [d \in CallIds |-> c]
          /\ sessions' = [sessions EXCEPT ![c] =
                 [state |-> "open", closeCalls |-> 0]]
          /\ UNCHANGED completion
       \/ /\ \E e \in LaunchErrors : Reject(c, "launch", e)
          /\ UNCHANGED <<browser, sessions>>
    /\ UNCHANGED <<env, entry, options, outcome>>
    /\ UNCHANGED hVars

\* browser = await puppeteer.launch({..., defaultViewport: { width, height }})
Launch(c) ==
    /\ \/ /\ Begin(c, "launch", LaunchArgs(options[c]))
          /\ UNCHANGED <<completion, browser, sessions>>
       \/ /\ Resolve(c, "launch", "newPage")
          /\ browser' = [browser EXCEPT ![c] = c]
          /\ sessions' = [sessions EXCEPT ![c] =
                 [state |-> "open", closeCalls |-> 0]]
          /\ UNCHANGED completion
       \/ /\ \E e \in LaunchErrors : Reject(c, "launch", e)
          /\ UNCHANGED <<browser, sessions>>
    /\ UNCHANGED <<env, entry, options, outcome>>
    /\ UNCHANGED hVars

\* const page = await browser.newPage()
NewPage(c) ==
    /\ \/ Begin(c, "newPage", NoArgs) /\ UNCHANGED completion
       \/ Resolve(c, "newPage", "emulateMediaFeatures") /\ UNCHANGED completion
       \/ \E e \in NewPageErrors : Reject(c, "newPage", e)
    /\ UNCHANGED <<env, entry, options, browser, outcome, sessions>>
    /\ UNCHANGED hVars

\* await page.emulateMediaFeatures([{ name: 'prefers-color-scheme', value: 'dark' }])
EmulateMediaFeatures(c) ==
    /\ \/ /\ Begin(c, "emulateMediaFeatures",
                   [name |-> "prefers-color-scheme", value |-> "dark"])
          /\ UNCHANGED completion
       \/ /\ Resolve(c, "emulateMediaFeatures", AfterEmulateMediaFeatures(options[c]))
          /\ UNCHANGED completion
       \/ \E e \in EmulateMediaFeaturesErrors : Reject(c, "emulateMediaFeatures", e)
    /\ UNCHANGED <<env, entry, options, browser, outcome, sessions>>
    /\ UNCHANGED hVars

\* if (timezone) await page.emulateTimezone(timezone)
EmulateTimezone(c) ==
    /\ \/ /\ Begin(c, "emulateTimezone", [timezone |-> Locals(options[c]).timezone])
          /\ UNCHANGED completion
       \/ Resolve(c, "emulateTimezone", "goto") /\ UNCHANGED completion
       \/ \E e \in EmulateTimezoneErrors : Reject(c, "emulateTimezone", e)
    /\ UNCHANGED <<env, entry, options, browser, outcome, sessions>>
    /\ UNCHANGED hVars

\* Mutant: page.goto is called without await.
GotoNotAwaited(c) ==
    /\ pc[c] = "goto"
    /\ ~awaiting[c]
    /\ pc' = [pc EXCEPT ![c] = AfterGoto(options[c])]
    /\ trace' = [trace EXCEPT ![c] =
           Append(@, [op |-> "goto", ev |-> "begin", args |-> GotoArgs(options[c])])]
    /\ UNCHANGED <<env, entry, options, awaiting, browser, completion, outcome, sessions>>
    /\ UNCHANGED hVars

\* await page.goto(url, { waitUntil: 'networkidle0', timeout: 30000 })
Goto(c) ==
    /\ \/ Begin(c, "goto", GotoArgs(options[c])) /\ UNCHANGED completion
       \/ Resolve(c, "goto", AfterGoto(options[c])) /\ UNCHANGED completion
       \/ \E e \in GotoErrors : Reject(c, "goto", e)
    /\ UNCHANGED <<env, entry, options, browser, outcome, sessions>>
    /\ UNCHANGED hVars

\* if (waitForSelector) await page.waitForSelector(waitForSelector, { timeout: 30000 })
WaitForSelector(c) ==
    /\ \/ /\ Begin(c, "waitForSelector",
                   [selector |-> Locals(options[c]).waitForSelector,
                    timeout |-> SELECTOR_TIMEOUT])
          /\ UNCHANGED completion
       \/ /\ Resolve(c, "waitForSelector", AfterWaitForSelector(options[c]))
          /\ UNCHANGED completion
       \/ \E e \in WaitForSelectorErrors : Reject(c, "waitForSelector", e)
    /\ UNCHANGED <<env, entry, options, browser, outcome, sessions>>
    /\ UNCHANGED hVars

\* if (waitForFunction) await page.waitForFunction(waitForFunction, { timeout: 30000 })
WaitForFunction(c) ==
    /\ \/ /\ Begin(c, "waitForFunction",
                   [fn |-> Locals(options[c]).waitForFunction,
                    timeout |-> FUNCTION_TIMEOUT])
          /\ UNCHANGED completion
       \/ /\ Resolve(c, "waitForFunction", AfterWaitForFunction(options[c]))
          /\ UNCHANGED completion
       \/ \E e \in WaitForFunctionErrors : Reject(c, "waitForFunction", e)
    /\ UNCHANGED <<env, entry, options, browser, outcome, sessions>>
    /\ UNCHANGED hVars

\* if (waitForTimeout > 0) await new Promise(resolve => setTimeout(resolve, waitForTimeout))
\* The promise has no reject path.
SetTimeout(c) ==
    /\ \/ Begin(c, "setTimeout", [ms |-> Locals(options[c]).waitForTimeout])
       \/ Resolve(c, "setTimeout", "screenshot")
    /\ UNCHANGED <<env, entry, options, browser, completion, outcome, sessions>>
    /\ UNCHANGED hVars

\* The image the page yields for a screenshot request; its size is the page's.
BufferLengths == {20480, 40960}
Buffer(c, args, len) == [session |-> browser[c], args |-> args, length |-> len]

\* const buffer = await page.screenshot({...}); return { buffer, contentType: 'image/jpeg' }
Screenshot(c) ==
    /\ \/ /\ Begin(c, "screenshot", ScreenshotArgs(options[c]))
          /\ UNCHANGED completion
       \/ /\ Resolve(c, "screenshot", "finally")
          /\ \E len \in BufferLengths :
                completion' = [completion EXCEPT ![c] =
                    [type |-> "return",
                     value |-> [buffer |-> Buffer(c, ScreenshotArgs(options[c]), len),
                                contentType |-> "image/jpeg"]]]
       \/ \E e \in ScreenshotErrors : Reject(c, "screenshot", e)
    /\ UNCHANGED <<env, entry, options, browser, outcome, sessions>>
    /\ UNCHANGED hVars

\* Mutant: the close sits at the end of the try block, so only a successful
\* capture reaches it.
FinallyOnSuccessOnly(c) ==
    /\ pc[c] = "finally"
    /\ pc' = [pc EXCEPT ![c] =
           IF browser[c] # 0 /\ completion[c].type = "return" THEN "close" ELSE "settle"]
    /\ UNCHANGED <<env, entry, options, awaiting, browser, completion, outcome,
                   sessions, trace>>
    /\ UNCHANGED hVars

\* Mutant: the `if (browser)` guard is missing.
FinallyUnconditional(c) ==
    /\ pc[c] = "finally"
    /\ pc' = [pc EXCEPT ![c] = "close"]
    /\ UNCHANGED <<env, entry, options, awaiting, browser, completion, outcome,
                   sessions, trace>>
    /\ UNCHANGED hVars

\* finally { if (browser) ... }
Finally(c) ==
    /\ pc[c] = "finally"
    /\ pc' = [pc EXCEPT ![c] = IF browser[c] # 0 THEN "close" ELSE "settle"]
    /\ UNCHANGED <<env, entry, options, awaiting, browser, completion, outcome,
                   sessions, trace>>
    /\ UNCHANGED hVars

\* Mutant: browser.close() is called without await.
CloseNotAwaited(c) ==
    /\ pc[c] = "close"
    /\ ~awaiting[c]
    /\ pc' = [pc EXCEPT ![c] = "settle"]
    /\ trace' = [trace EXCEPT ![c] =
           Append(@, [op |-> "close", ev |-> "begin", args |-> NoArgs])]
    /\ sessions' = [sessions EXCEPT ![browser[c]].closeCalls = @ + 1]
    /\ UNCHANGED <<env, entry, options, awaiting, browser, completion, outcome>>
    /\ UNCHANGED hVars

\* await browser.close() inside finally: a rejection replaces the pending
\* completion of the try block.  Whether a failed close left the session
\* running is the library's affair: either.
Close(c) ==
    /\ \/ /\ Begin(c, "close", NoArgs)
          /\ sessions' = [sessions EXCEPT ![browser[c]].closeCalls = @ + 1]
          /\ UNCHANGED completion
       \/ /\ Resolve(c, "close", "settle")
          /\ sessions' = [sessions EXCEPT ![browser[c]].state = "closed"]
          /\ UNCHANGED completion
       \/ /\ \E e \in CloseErrors :
                /\ pc[c] = "close"
                /\ awaiting[c]
                /\ awaiting' = [awaiting EXCEPT ![c] = FALSE]
                /\ pc' = [pc EXCEPT ![c] = "settle"]
                /\ completion' = [completion EXCEPT ![c] = [type |-> "throw", error |-> e]]
                /\ trace' = [trace EXCEPT ![c] =
                       Append(@, [op |-> "close", ev |-> "reject", args |-> e])]
          /\ \E st \in {"open", "closed"} :
                sessions' = [sessions EXCEPT ![browser[c]].state = st]
    /\ UNCHANGED <<env, entry, options, browser, outcome>>
    /\ UNCHANGED hVars

\* Mutant: a failed capture is answered with an empty image instead of the error.
SettlePartial(c) ==
    /\ pc[c] = "settle"
    /\ pc' = [pc EXCEPT ![c] = "done"]
    /\ outcome' = [outcome EXCEPT ![c] =
           IF completion[c].type = "throw"
           THEN [type |-> "fulfilled",
                 value |-> [buffer |-> Buffer(c, ScreenshotArgs(options[c]), 0),
                            contentType |-> "image/jpeg"]]
           ELSE [type |-> "fulfilled", value |-> completion[c].value]]
    /\ UNCHANGED <<env, entry, options, awaiting, browser, completion, sessions, trace>>
    /\ UNCHANGED hVars

\* The promise returned by takeScreenshot settles with the completion that
\* survived the finally block.
Settle(c) ==
    /\ pc[c] = "settle"
    /\ pc' = [pc EXCEPT ![c] = "done"]
    /\ outcome' = [outcome EXCEPT ![c] =
           IF completion[c].type = "throw"
           THEN [type |-> "rejected", error |-> completion[c].error]
           ELSE [type |-> "fulfilled", value |-> completion[c].value]]
    /\ UNCHANGED <<env, entry, options, awaiting, browser, completion, sessions, trace>>
    /\ UNCHANGED hVars

(***************************************************************************)
(* The handler's configuration merge.                                      *)
(***************************************************************************)
IsDigit(ch) == ch \in {"0", "1", "2", "3", "4", "5", "6", "7", "8", "9"}

DigitValue(ch) ==
    CASE ch = "0" -> 0 [] ch = "1" -> 1 [] ch = "2" -> 2 [] ch = "3" -> 3
      [] ch = "4" -> 4 [] ch = "5" -> 5 [] ch = "6" -> 6 [] ch = "7" -> 7
      [] ch = "8" -> 8 [] ch = "9" -> 9

CharAt(s, i) == SubSeq(s, i, i)

RECURSIVE SkipSpaces(_, _)
SkipSpaces(s, i) ==
    IF i <= Len(s) /\ CharAt(s, i) = " " THEN SkipSpaces(s, i + 1) ELSE i

RECURSIVE ParseDigits(_, _, _)
ParseDigits(s, i, acc) ==
    IF i <= Len(s) /\ IsDigit(CharAt(s, i))
    THEN ParseDigits(s, i + 1, acc * 10 + DigitValue(CharAt(s, i)))
    ELSE acc

\* parseInt(s, 10): leading blanks, an optional sign, then the longest run of
\* decimal digits; NaN when there is no digit.
ParseInt(s) ==
    LET i == SkipSpaces(s, 1)
        signed == i <= Len(s) /\ CharAt(s, i) \in {"-", "+"}
        negative == signed /\ CharAt(s, i) = "-"
        j == IF signed THEN i + 1 ELSE i
    IN  IF j <= Len(s) /\ IsDigit(CharAt(s, j))
        THEN Num((IF negative THEN -1 ELSE 1) * ParseDigits(s, j, 0))
        ELSE NaN

\* process.env.X ? parseInt(process.env.X, 10) : undefined
EnvInt(v) == IF Truthy(v) THEN ParseInt(v.s) ELSE Undefined

MissingUrl == Err("Error", "Missing url: provide in event or set SCREENSHOT_URL env var")
MissingS3Bucket == Err("Error", "Missing s3Bucket: provide in event or set S3_BUCKET env var")
MissingS3Key == Err("Error", "Missing s3Key: provide in event or set S3_KEY env var")

\* What getConfig throws, if it throws.
getConfigThrows(ev, e) ==
    ~Truthy(Or(ev.url, e.SCREENSHOT_URL))
    \/ ~Truthy(Or(ev.s3Bucket, e.S3_BUCKET))
    \/ ~Truthy(Or(ev.s3Key, e.S3_KEY))

getConfigError(ev, e) ==
    IF ~Truthy(Or(ev.url, e.SCREENSHOT_URL)) THEN MissingUrl
    ELSE IF ~Truthy(Or(ev.s3Bucket, e.S3_BUCKET)) THEN MissingS3Bucket
    ELSE MissingS3Key

\* What getConfig returns, when it returns.
getConfig(ev, e) ==
    [url |-> Or(ev.url, e.SCREENSHOT_URL),
     s3Bucket |-> Or(ev.s3Bucket, e.S3_BUCKET),
     s3Key |-> Or(ev.s3Key, e.S3_KEY),
     width |-> Or(ev.width, EnvInt(e.VIEWPORT_WIDTH)),
     height |-> Or(ev.height, EnvInt(e.VIEWPORT_HEIGHT)),
     waitForSelector |-> Or(ev.waitForSelector, e.WAIT_FOR_SELECTOR),
     waitForFunction |-> Or(ev.waitForFunction, e.WAIT_FOR_FUNCTION),
     waitForTimeout |-> Or(ev.waitForTimeout, EnvInt(e.WAIT_FOR_TIMEOUT)),
     quality |-> Or(ev.quality, EnvInt(e.SCREENSHOT_QUALITY)),
     timezone |-> Or(ev.timezone, e.TIMEZONE)]

\* The options the handler passes to takeScreenshot; fullPage is not among them.
HandlerOptions(cfg) ==
    [url |-> cfg.url,
     width |-> cfg.width,
     height |-> cfg.height,
     waitForSelector |-> cfg.waitForSelector,
     waitForFunction |-> cfg.waitForFunction,
     waitForTimeout |-> cfg.waitForTimeout,
     quality |-> cfg.quality,
     fullPage |-> Undefined,
     timezone |-> cfg.timezone]

\* `s3://${config.s3Bucket}/${config.s3Key}`
S3Uri(cfg) == "s3://" \o cfg.s3Bucket.s \o "/" \o cfg.s3Key.s

PutObjectCommand(cfg, shot) ==
    [Bucket |-> cfg.s3Bucket,
     Key |-> cfg.s3Key,
     Body |-> shot.buffer,
     ContentType |-> shot.contentType,
     CacheControl |-> "public, max-age=3600"]

\* The value returned from the catch block.
ErrorResult(e) ==
    [type |-> "fulfilled",
     value |-> [statusCode |-> 500,
                body |-> [message |-> "Screenshot failed", error |-> e.message]]]

\* The value returned at the end of the try block.
SuccessResult(cfg, shot) ==
    [type |-> "fulfilled",
     value |-> [statusCode |-> 200,
                body |-> [message |-> "Screenshot uploaded successfully",
                          s3Uri |-> S3Uri(cfg),
                          size |-> shot.buffer.length],
                s3Uri |-> S3Uri(cfg)]]

SendErrors == {Err("AccessDenied", "Access Denied"), Err("NoSuchBucket", "The specified bucket does not exist")}

NoConfig == [none |-> TRUE]
NoEvent == [none |-> TRUE]
NoOptions == [none |-> TRUE]

(***************************************************************************)
(* Inputs: the environments the process may start in, the events the       *)
(* handler may receive.                                                    *)
(***************************************************************************)
EmptyEnv ==
    [SCREENSHOT_URL |-> Undefined, S3_BUCKET |-> Undefined, S3_KEY |-> Undefined,
     VIEWPORT_WIDTH |-> Undefined, VIEWPORT_HEIGHT |-> Undefined,
     WAIT_FOR_SELECTOR |-> Undefined, WAIT_FOR_FUNCTION |-> Undefined,
     WAIT_FOR_TIMEOUT |-> Undefined, SCREENSHOT_QUALITY |-> Undefined,
     TIMEZONE |-> Undefined]

\* The environment the deployed function is given: the three required settings.
DeployedEnv ==
    [EmptyEnv EXCEPT !.SCREENSHOT_URL = Str("https://env.example"),
                     !.S3_BUCKET = Str("env-bucket"),
                     !.S3_KEY = Str("env.jpg")]

EnvSet ==
    {EmptyEnv, DeployedEnv,
     [DeployedEnv EXCEPT !.SCREENSHOT_URL = Undefined],
     [DeployedEnv EXCEPT !.S3_BUCKET = Str("")],
     [DeployedEnv EXCEPT !.S3_KEY = Undefined],
     [DeployedEnv EXCEPT !.WAIT_FOR_SELECTOR = Str("#env"), !.TIMEZONE = Str("UTC")],
     [DeployedEnv EXCEPT !.WAIT_FOR_FUNCTION = Str("window.ready"),
                         !.WAIT_FOR_TIMEOUT = Str("250")],
     [DeployedEnv EXCEPT !.VIEWPORT_WIDTH = Str("800"), !.VIEWPORT_HEIGHT = Str("600"),
                         !.SCREENSHOT_QUALITY = Str("75")],
     [DeployedEnv EXCEPT !.VIEWPORT_WIDTH = Str("wide"), !.VIEWPORT_HEIGHT = Str("-5"),
                         !.SCREENSHOT_QUALITY = Str("150")]}

EmptyEvent ==
    [url |-> Undefined, s3Bucket |-> Undefined, s3Key |-> Undefined,
     width |-> Undefined, height |-> Undefined,
     waitForSelector |-> Undefined, waitForFunction |-> Undefined,
     waitForTimeout |-> Undefined, quality |-> Undefined, timezone |-> Undefined]

EventSet ==
    {[EmptyEvent EXCEPT !.url = u, !.s3Bucket = b, !.s3Key = k,
                        !.waitForSelector = sel, !.waitForTimeout = ms, !.width = w] :
        u \in {Undefined, Str("https://event.example")},
        b \in {Undefined, Str("event-bucket")},
        k \in {Undefined, Str("event.jpg")},
        sel \in {Undefined, Str("#event")},
        ms \in {Undefined, Num(0), Num(100)},
        w \in {Undefined, Num(1024)}}

(***************************************************************************)
(* handler                                                                 *)
(***************************************************************************)
\* handler(event) up to its first await, for an event of S: getConfig, then the
\* call of takeScreenshot; a throw of getConfig lands in the catch block.
HandlerWith(c, S) ==
    /\ entry[c] = "none"
    /\ entry' = [entry EXCEPT ![c] = "handler"]
    /\ \E ev \in S :
          /\ event' = [event EXCEPT ![c] = ev]
          /\ IF getConfigThrows(ev, env)
             THEN /\ result' = [result EXCEPT ![c] = ErrorResult(getConfigError(ev, env))]
                  /\ hpc' = [hpc EXCEPT ![c] = "done"]
                  /\ UNCHANGED <<config, options, pc>>
             ELSE /\ config' = [config EXCEPT ![c] = getConfig(ev, env)]
                  /\ options' = [options EXCEPT ![c] = HandlerOptions(getConfig(ev, env))]
                  /\ pc' = [pc EXCEPT ![c] = "executablePath"]
                  /\ hpc' = [hpc EXCEPT ![c] = "takeScreenshot"]
                  /\ UNCHANGED result
    /\ UNCHANGED <<env, awaiting, browser, completion, outcome, sessions, trace, s3>>

Handler(c) == HandlerWith(c, EventSet)

\* Mutant: the call of takeScreenshot is outside the try block.
HandlerResumeNoCatch(c) ==
    /\ hpc[c] = "takeScreenshot"
    /\ outcome[c].type # "pending"
    /\ IF outcome[c].type = "rejected"
       THEN /\ result' = [result EXCEPT ![c] =
                   [type |-> "rejected", error |-> outcome[c].error]]
            /\ hpc' = [hpc EXCEPT ![c] = "done"]
       ELSE /\ hpc' = [hpc EXCEPT ![c] = "send"]
            /\ UNCHANGED result
    /\ UNCHANGED <<env, entry, event, config, s3>>
    /\ UNCHANGED tsVars

\* The await of takeScreenshot settles: a rejection lands in the catch block,
\* a result goes on to the upload.
HandlerResume(c) ==
    /\ hpc[c] = "takeScreenshot"
    /\ outcome[c].type # "pending"
    /\ IF outcome[c].type = "rejected"
       THEN /\ result' = [result EXCEPT ![c] = ErrorResult(outcome[c].error)]
            /\ hpc' = [hpc EXCEPT ![c] = "done"]
       ELSE /\ hpc' = [hpc EXCEPT ![c] = "send"]
            /\ UNCHANGED result
    /\ UNCHANGED <<env, entry, event, config, s3>>
    /\ UNCHANGED tsVars

\* Mutant: the outcome of the upload is not looked at; the 200 result is
\* returned whether it succeeded or not.
SendUnchecked(c) ==
    /\ \/ /\ hpc[c] = "send"
          /\ hpc' = [hpc EXCEPT ![c] = "sending"]
          /\ s3' = Append(s3, PutObjectCommand(config[c], outcome[c].value))
          /\ trace' = [trace EXCEPT ![c] = Append(@, [op |-> "send", ev |-> "begin",
                           args |-> PutObjectCommand(config[c], outcome[c].value)])]
          /\ UNCHANGED result
       \/ /\ hpc[c] = "sending"
          /\ hpc' = [hpc EXCEPT ![c] = "done"]
          /\ result' = [result EXCEPT ![c] = SuccessResult(config[c], outcome[c].value)]
          /\ trace' = [trace EXCEPT ![c] = Append(@, [op |-> "send", ev |-> "resolve",
                           args |-> NoArgs])]
          /\ UNCHANGED s3
       \/ /\ hpc[c] = "sending"
          /\ hpc' = [hpc EXCEPT ![c] = "done"]
          /\ \E e \in SendErrors :
                /\ result' = [result EXCEPT ![c] = SuccessResult(config[c], outcome[c].value)]
                /\ trace' = [trace EXCEPT ![c] = Append(@, [op |-> "send", ev |-> "reject",
                                 args |-> e])]
          /\ UNCHANGED s3
    /\ UNCHANGED <<env, entry, event, config, options, pc, awaiting, browser,
                   completion, outcome, sessions>>

\* await s3.send(new PutObjectCommand({...})), then the 200 result; a rejected
\* send lands in the catch block.
Send(c) ==
    /\ \/ /\ hpc[c] = "send"
          /\ hpc' = [hpc EXCEPT ![c] = "sending"]
          /\ s3' = Append(s3, PutObjectCommand(config[c], outcome[c].value))
          /\ trace' = [trace EXCEPT ![c] = Append(@, [op |-> "send", ev |-> "begin",
                           args |-> PutObjectCommand(config[c], outcome[c].value)])]
          /\ UNCHANGED result
       \/ /\ hpc[c] = "sending"
          /\ hpc' = [hpc EXCEPT ![c] = "done"]
          /\ result' = [result EXCEPT ![c] = SuccessResult(config[c], outcome[c].value)]
          /\ trace' = [trace EXCEPT ![c] = Append(@, [op |-> "send", ev |-> "resolve",
                           args |-> NoArgs])]
          /\ UNCHANGED s3
       \/ /\ hpc[c] = "sending"
          /\ hpc' = [hpc EXCEPT ![c] = "done"]
          /\ \E e \in SendErrors :
                /\ result' = [result EXCEPT ![c] = ErrorResult(e)]
                /\ trace' = [trace EXCEPT ![c] = Append(@, [op |-> "send", ev |-> "reject",
                                 args |-> e])]
          /\ UNCHANGED s3
    /\ UNCHANGED <<env, entry, event, config, options, pc, awaiting, browser,
                   completion, outcome, sessions>>

(***************************************************************************)
(* Specification: one call at a time.                                      *)
(***************************************************************************)
InitCalls(ids) ==
    /\ env \in EnvSet
    /\ entry = [c \in ids |-> "none"]
    /\ options = [c \in ids |-> NoOptions]
    /\ pc = [c \in ids |-> "idle"]
    /\ awaiting = [c \in ids |-> FALSE]
    /\ browser = [c \in ids |-> 0]
    /\ completion = [c \in ids |-> NoCompletion]
    /\ outcome = [c \in ids |-> NoOutcome]
    /\ sessions = [c \in ids |-> NoSession]
    /\ trace = [c \in ids |-> <<>>]
    /\ hpc = [c \in ids |-> "idle"]
    /\ event = [c \in ids |-> NoEvent]
    /\ config = [c \in ids |-> NoConfig]
    /\ result = [c \in ids |-> NoOutcome]
    /\ s3 = <<>>

\* No command line process is in the picture.
NoCli == [phase |-> "absent"]

\* The clock is not running.
NoClock(ids) == now = 0 /\ times = [c \in ids |-> <<>>]

Init == InitCalls({1}) /\ cli = NoCli /\ NoClock({1})

Next ==
    \/ \E c \in CallIds : TakeScreenshotCall(c) /\ UNCHANGED xVars
    \/ \E c \in CallIds : ExecutablePath(c) /\ UNCHANGED xVars
    \/ \E c \in CallIds : Launch(c) /\ UNCHANGED xVars
    \/ \E c \in CallIds : NewPage(c) /\ UNCHANGED xVars
    \/ \E c \in CallIds : EmulateMediaFeatures(c) /\ UNCHANGED xVars
    \/ \E c \in CallIds : EmulateTimezone(c) /\ UNCHANGED xVars
    \/ \E c \in CallIds : Goto(c) /\ UNCHANGED xVars
    \/ \E c \in CallIds : WaitForSelector(c) /\ UNCHANGED xVars
    \/ \E c \in CallIds : WaitForFunction(c) /\ UNCHANGED xVars
    \/ \E c \in CallIds : SetTimeout(c) /\ UNCHANGED xVars
    \/ \E c \in CallIds : Screenshot(c) /\ UNCHANGED xVars
    \/ \E c \in CallIds : Finally(c) /\ UNCHANGED xVars
    \/ \E c \in CallIds : Close(c) /\ UNCHANGED xVars
    \/ \E c \in CallIds : Settle(c) /\ UNCHANGED xVars
    \/ \E c \in CallIds : Handler(c) /\ UNCHANGED xVars
    \/ \E c \in CallIds : HandlerResume(c) /\ UNCHANGED xVars
    \/ \E c \in CallIds : Send(c) /\ UNCHANGED xVars

Spec == Init /\ [][Next]_vars

\* The operations of takeScreenshot, in source order, and the stage of each.
BrowserOps ==
    <<"executablePath", "launch", "newPage", "emulateMediaFeatures", "emulateTimezone",
      "goto", "waitForSelector", "waitForFunction", "setTimeout", "screenshot", "close">>

PageOps ==
    {"newPage", "emulateMediaFeatures", "emulateTimezone", "goto", "waitForSelector",
     "waitForFunction", "setTimeout", "screenshot"}

StageOps == {"executablePath", "launch"} \cup PageOps

\* The positions in the history at which an operation of the try block rejected.
StageFailures(c) ==
    {i \in 1..Len(trace[c]) : trace[c][i].ev = "reject" /\ trace[c][i].op \in StageOps}

Delivered(c) == outcome[c].type # "pending"

\* C1: once a call whose launch succeeded has ended, browser.close() has been
\* called exactly once on its session, whichever later stage failed or none;
\* and close is never called twice.
C1_CloseExactlyOnce ==
    \A c \in CallIds :
        /\ Count(c, "close", "begin") <= 1
        /\ sessions[c].closeCalls <= 1
        /\ (pc[c] = "done" /\ Resolved(c, "launch"))
              => (Count(c, "close", "begin") = 1 /\ sessions[c].closeCalls = 1)

\* A call ended after launch succeeded and a later stage failed, with one close.
C1_Witness ==
    \E c \in CallIds :
        /\ pc[c] = "done"
        /\ Resolved(c, "launch")
        /\ Rejected(c, "waitForSelector")
        /\ sessions[c].closeCalls = 1

Configured(v) == v.t = "string" /\ v.s # ""

\* A settle delay counts as configured when it is a number greater than zero.
DelayConfigured(v) == v.t = "number" /\ v.n > 0

\* The PutObject commands that carry an image of call c's session.
PutsOf(c) == {i \in 1..Len(s3) : s3[i].Body.session = c}

\* C3: takeScreenshot fulfils only when launch, page preparation, navigation,
\* every configured gate and the capture all resolved, and then with the
\* captured image; once any stage has failed no result is delivered and the
\* handler issues no PutObject.
C3_NoPartialResults ==
    \A c \in CallIds :
        /\ outcome[c].type = "fulfilled" =>
              /\ StageFailures(c) = {}
              /\ \A op \in {"executablePath", "launch", "newPage",
                            "emulateMediaFeatures", "goto", "screenshot"} :
                    Resolved(c, op)
              /\ Configured(options[c].timezone) => Resolved(c, "emulateTimezone")
              /\ Configured(options[c].waitForSelector) => Resolved(c, "waitForSelector")
              /\ Configured(options[c].waitForFunction) => Resolved(c, "waitForFunction")
              /\ DelayConfigured(options[c].waitForTimeout) => Resolved(c, "setTimeout")
              /\ outcome[c].value.contentType = "image/jpeg"
              /\ outcome[c].value.buffer.session = c
              /\ outcome[c].value.buffer.length > 0
        /\ StageFailures(c) # {} =>
              /\ outcome[c].type # "fulfilled"
              /\ ~Begun(c, "send")
              /\ PutsOf(c) = {}

\* A handler invocation ended after navigation succeeded and the selector wait
\* failed: nothing was uploaded.
C3_Witness ==
    \E c \in CallIds :
        /\ entry[c] = "handler"
        /\ hpc[c] = "done"
        /\ Resolved(c, "goto")
        /\ Rejected(c, "waitForSelector")
        /\ outcome[c].type = "rejected"
        /\ s3 = <<>>

\* The message of the failure a handler invocation met, "" when it met none.
HandlerFailureMessage(c) ==
    IF ~Truthy(event[c].url) /\ ~Truthy(env.SCREENSHOT_URL)
    THEN "Missing url: provide in event or set SCREENSHOT_URL env var"
    ELSE IF ~Truthy(event[c].s3Bucket) /\ ~Truthy(env.S3_BUCKET)
    THEN "Missing s3Bucket: provide in event or set S3_BUCKET env var"
    ELSE IF ~Truthy(event[c].s3Key) /\ ~Truthy(env.S3_KEY)
    THEN "Missing s3Key: provide in event or set S3_KEY env var"
    ELSE IF outcome[c].type = "rejected"
    THEN outcome[c].error.message
    ELSE IF Rejected(c, "send")
    THEN trace[c][CHOOSE i \in Positions(c, "send", "reject") : TRUE].args.message
    ELSE ""

\* C4: the handler's promise never rejects; it has resolved when the handler
\* has ended, and after any failure (a missing setting, a capture error, an
\* upload error) it resolved to a status other than 200 whose body carries the
\* failure's message and which has no s3Uri.
C4_HandlerNeverThrows ==
    \A c \in CallIds :
        entry[c] = "handler" =>
            /\ result[c].type # "rejected"
            /\ hpc[c] = "done" <=> result[c].type = "fulfilled"
            /\ (hpc[c] = "done" /\ HandlerFailureMessage(c) # "") =>
                  /\ result[c].value.statusCode # 200
                  /\ result[c].value.body.error = HandlerFailureMessage(c)
                  /\ "s3Uri" \notin DOMAIN result[c].value
                  /\ "s3Uri" \notin DOMAIN result[c].value.body

\* A handler invocation whose upload failed resolved to a 500 with the message.
C4_Witness ==
    \E c \in CallIds :
        /\ entry[c] = "handler"
        /\ hpc[c] = "done"
        /\ Rejected(c, "send")
        /\ result[c].type = "fulfilled"
        /\ result[c].value.statusCode = 500
        /\ result[c].value.body.error = "Access Denied"

\* The place of an operation in the source order, and its stage.
OpIndex(op) == CHOOSE i \in 1..Len(BrowserOps) : BrowserOps[i] = op

StageOf(op) ==
    CASE op \in {"executablePath", "launch"} -> 1
      [] op \in {"newPage", "emulateMediaFeatures", "emulateTimezone"} -> 2
      [] op = "goto" -> 3
      [] op = "waitForSelector" -> 4
      [] op = "waitForFunction" -> 5
      [] op = "setTimeout" -> 6
      [] op = "screenshot" -> 7
      [] op = "close" -> 8

IsBrowserOp(e) == e.op # "send"

\* The history of a call restricted to the operations of takeScreenshot.
BrowserTrace(c) == SelectSeq(trace[c], IsBrowserOp)

\* C5: in one call the operations begin in the order launch, page preparation,
\* navigation, selector wait, predicate wait, settle delay, capture, teardown;
\* each begins only after the one before it has settled, so at most one is
\* pending at any time.
C5_StagesInOrder ==
    \A c \in CallIds :
        LET t == BrowserTrace(c) IN
        /\ \A i \in 1..Len(t) :
              IF i % 2 = 1
              THEN t[i].ev = "begin"
              ELSE t[i].ev \in {"resolve", "reject"} /\ t[i].op = t[i - 1].op
        /\ awaiting[c] <=> Len(t) % 2 = 1
        /\ \A i, j \in 1..Len(t) :
              (i < j /\ t[i].ev = "begin" /\ t[j].ev = "begin")
                  => /\ StageOf(t[i].op) <= StageOf(t[j].op)
                     /\ OpIndex(t[i].op) < OpIndex(t[j].op)

\* A call ran every stage, each gate included, and ended.
C5_Witness ==
    \E c \in CallIds :
        /\ pc[c] = "done"
        /\ Resolved(c, "emulateTimezone")
        /\ Resolved(c, "waitForSelector")
        /\ Resolved(c, "waitForFunction")
        /\ Resolved(c, "setTimeout")
        /\ Resolved(c, "screenshot")
        /\ Resolved(c, "close")

\* The kind of failure an error delivered to the caller stands for: the
\* error of a timed-out navigation, selector wait or predicate wait, or of a
\* failed session start.
KindOf(e) ==
    CASE e \in GotoErrors /\ e.name = "TimeoutError" -> "NavigationTimeout"
      [] e \in WaitForSelectorErrors -> "SelectorTimeout"
      [] e \in WaitForFunctionErrors -> "PredicateTimeout"
      [] e \in ExecutablePathErrors \cup LaunchErrors -> "SessionStartFailure"
      [] OTHER -> "Other"

\* The error of the stage that failed in call c.
StageError(c) == trace[c][CHOOSE i \in StageFailures(c) : TRUE].args

\* C6: a call in which a stage failed ends by delivering to the caller a
\* failure of that stage's kind: NavigationTimeout for a navigation that
\* exceeded its bound, SelectorTimeout and PredicateTimeout for the two waits,
\* SessionStartFailure for a failed launch.
C6_StageKindSurfaces ==
    \A c \in CallIds :
        (pc[c] = "done" /\ StageFailures(c) # {} /\ KindOf(StageError(c)) # "Other")
            => /\ outcome[c].type = "rejected"
               /\ KindOf(outcome[c].error) = KindOf(StageError(c))

\* C7: no operation of a call (launch, navigation, the waits, capture, close,
\* upload) is begun twice, and after an operation has rejected nothing is
\* begun but the close that follows a failed stage.
C7_NoRetry ==
    \A c \in CallIds :
        /\ \A i, j \in 1..Len(trace[c]) :
              (i < j /\ trace[c][i].ev = "begin" /\ trace[c][j].ev = "begin")
                  => trace[c][i].op # trace[c][j].op
        /\ \A i, j \in 1..Len(trace[c]) :
              (i < j /\ trace[c][i].ev = "reject" /\ trace[c][j].ev = "begin")
                  => trace[c][j].op = "close" /\ trace[c][i].op \in StageOps

\* A call ended after its navigation failed: one goto, then only the close.
C7_Witness ==
    \E c \in CallIds :
        /\ pc[c] = "done"
        /\ Rejected(c, "goto")
        /\ Count(c, "goto", "begin") = 1
        /\ Resolved(c, "close")
        /\ Len(trace[c]) = 12

\* The event that follows position i in the history of c is the begin of op.
NextBegins(c, i, op) ==
    i < Len(trace[c]) => (trace[c][i + 1].op = op /\ trace[c][i + 1].ev = "begin")

\* C8: the selector wait is begun only if waitForSelector is configured, the
\* predicate wait only if waitForFunction is, the settle delay only if
\* waitForTimeout is greater than zero; by the time the capture begins every
\* configured gate has been passed; and with none configured the capture is
\* what follows navigation.
C8_GatesOnlyIfConfigured ==
    \A c \in CallIds :
        pc[c] # "idle" =>
            LET o == options[c]
                none == /\ ~Configured(o.waitForSelector)
                        /\ ~Configured(o.waitForFunction)
                        /\ ~DelayConfigured(o.waitForTimeout)
            IN  /\ Begun(c, "waitForSelector") => Configured(o.waitForSelector)
                /\ Begun(c, "waitForFunction") => Configured(o.waitForFunction)
                /\ Begun(c, "setTimeout") => DelayConfigured(o.waitForTimeout)
                /\ Begun(c, "screenshot") =>
                      /\ Configured(o.waitForSelector) => Resolved(c, "waitForSelector")
                      /\ Configured(o.waitForFunction) => Resolved(c, "waitForFunction")
                      /\ DelayConfigured(o.waitForTimeout) => Resolved(c, "setTimeout")
                /\ none =>
                      \A i \in Positions(c, "goto", "resolve") :
                          /\ NextBegins(c, i, "screenshot")
                          /\ i = Len(trace[c]) => pc[c] = "screenshot"

\* A capture with an empty selector, a predicate and a zero delay: only the
\* predicate wait ran.
C8_Witness ==
    \E c \in CallIds :
        /\ Resolved(c, "screenshot")
        /\ options[c].waitForSelector = Str("")
        /\ options[c].waitForTimeout = Num(0)
        /\ Resolved(c, "waitForFunction")
        /\ ~Begun(c, "waitForSelector")
        /\ ~Begun(c, "setTimeout")

\* The error with which session acquisition failed in call c.
AcquisitionError(c) ==
    trace[c][CHOOSE i \in Positions(c, "executablePath", "reject")
                            \cup Positions(c, "launch", "reject") : TRUE].args

\* C9: when resolving the executable path or the launch fails, no page
\* operation and no close is ever begun, neither step is begun again, no
\* session exists, and the call ends by rejecting with that failure.
C9_LaunchFailure ==
    \A c \in CallIds :
        (Rejected(c, "executablePath") \/ Rejected(c, "launch")) =>
            /\ \A op \in PageOps \cup {"close"} : ~Begun(c, op)
            /\ Count(c, "executablePath", "begin") = 1
            /\ Count(c, "launch", "begin") <= 1
            /\ Rejected(c, "executablePath") => ~Begun(c, "launch")
            /\ browser[c] = 0
            /\ sessions[c] = NoSession
            /\ pc[c] \in {"finally", "settle", "done"}
            /\ pc[c] = "done" =>
                  outcome[c] = [type |-> "rejected", error |-> AcquisitionError(c)]

\* A call ended after puppeteer.launch failed.
C9_Witness ==
    \E c \in CallIds :
        /\ pc[c] = "done"
        /\ Rejected(c, "launch")
        /\ outcome[c].type = "rejected"
        /\ outcome[c].error \in LaunchErrors

\* The width and height a call asked for, the defaults standing in for
\* what it left out.
RequestedSize(o) ==
    [width |-> IF o.width = Undefined THEN Num(DEFAULT_WIDTH) ELSE o.width,
     height |-> IF o.height = Undefined THEN Num(DEFAULT_HEIGHT) ELSE o.height]

\* C10: page.screenshot is asked for the clip x=0, y=0, width, height of the
\* requested size, the size the session's viewport was launched with, unless
\* fullPage is true, and then for no clip.
C10_ClipFollowsFullPage ==
    \A c \in CallIds :
        \A i \in Positions(c, "screenshot", "begin") :
            LET shot == trace[c][i].args
                viewport == trace[c][CHOOSE j \in Positions(c, "launch", "begin") : TRUE]
                                .args.defaultViewport
                size == RequestedSize(options[c])
            IN  IF options[c].fullPage = Bool(TRUE)
                THEN shot.clip = Undefined /\ shot.fullPage = Bool(TRUE)
                ELSE /\ shot.fullPage = Bool(FALSE)
                     /\ shot.clip = [x |-> 0, y |-> 0,
                                     width |-> size.width, height |-> size.height]
                     /\ viewport = size

\* A capture of 800x600 with fullPage false asked for the clip 0,0,800,600.
C10_Witness ==
    \E c \in CallIds :
        /\ Begun(c, "screenshot")
        /\ options[c].fullPage = Bool(FALSE)
        /\ options[c].width = Num(800)
        /\ options[c].height = Num(600)
        /\ \E i \in Positions(c, "screenshot", "begin") :
              trace[c][i].args.clip =
                  [x |-> 0, y |-> 0, width |-> Num(800), height |-> Num(600)]
\* The value a request field stands for: the field when it is set, the
\* documented default when it is left out.
FieldOr(v, d) == IF v = Undefined THEN d ELSE v

\* The arguments with which call c began op.
BeginArgs(c, op) == trace[c][CHOOSE i \in Positions(c, op, "begin") : TRUE].args

\* C11: a request field left unset falls back to its fixed default (viewport
\* and clip 1200x630, quality 90, fullPage false, no selector wait, no
\* predicate wait, no settle delay, no timezone emulation) and a field that is
\* set reaches the browser as given.
C11_Defaults ==
    \A c \in CallIds :
        pc[c] # "idle" =>
            LET o == options[c]
                w == FieldOr(o.width, Num(1200))
                h == FieldOr(o.height, Num(630))
                fp == FieldOr(o.fullPage, Bool(FALSE))
            IN  /\ Begun(c, "launch") =>
                      BeginArgs(c, "launch").defaultViewport = [width |-> w, height |-> h]
                /\ Begun(c, "goto") => BeginArgs(c, "goto").url = o.url
                /\ Begun(c, "screenshot") =>
                      /\ BeginArgs(c, "screenshot").quality = FieldOr(o.quality, Num(90))
                      /\ BeginArgs(c, "screenshot").fullPage = fp
                      /\ fp = Bool(FALSE) =>
                            BeginArgs(c, "screenshot").clip =
                                [x |-> 0, y |-> 0, width |-> w, height |-> h]
                /\ o.waitForSelector = Undefined => ~Begun(c, "waitForSelector")
                /\ o.waitForFunction = Undefined => ~Begun(c, "waitForFunction")
                /\ o.waitForTimeout = Undefined => ~Begun(c, "setTimeout")
                /\ o.timezone = Undefined => ~Begun(c, "emulateTimezone")
                /\ Begun(c, "waitForSelector") =>
                      BeginArgs(c, "waitForSelector").selector = o.waitForSelector
                /\ Begun(c, "waitForFunction") =>
                      BeginArgs(c, "waitForFunction").fn = o.waitForFunction
                /\ Begun(c, "setTimeout") =>
                      BeginArgs(c, "setTimeout").ms = o.waitForTimeout
                /\ Begun(c, "emulateTimezone") =>
                      BeginArgs(c, "emulateTimezone").timezone = o.timezone

\* A request that set nothing but url was captured at 1200x630, quality 90,
\* clipped, right after navigation.
C11_Witness ==
    \E c \in CallIds :
        /\ Resolved(c, "screenshot")
        /\ entry[c] = "direct"
        /\ \A f \in DOMAIN options[c] \ {"url"} : options[c][f] = Undefined
        /\ BeginArgs(c, "launch").defaultViewport = [width |-> Num(1200), height |-> Num(630)]
        /\ BeginArgs(c, "screenshot").quality = Num(90)
        /\ BeginArgs(c, "screenshot").fullPage = Bool(FALSE)
        /\ BeginArgs(c, "screenshot").clip =
               [x |-> 0, y |-> 0, width |-> Num(1200), height |-> Num(630)]
        /\ Len(trace[c]) = 12

\* The bucket and key an invocation resolves to: the event's, else the
\* environment's.
ResolvedBucket(c) == IF Truthy(event[c].s3Bucket) THEN event[c].s3Bucket ELSE env.S3_BUCKET
ResolvedKey(c) == IF Truthy(event[c].s3Key) THEN event[c].s3Key ELSE env.S3_KEY

\* The handler's result is the success result: status 200 carrying an s3Uri.
Is200(r) == r.type = "fulfilled" /\ r.value.statusCode = 200 /\ "s3Uri" \in DOMAIN r.value

\* C12: the handler returns statusCode 200 with an s3Uri exactly when the
\* capture fulfilled and the upload resolved; the s3Uri is then
\* s3://<bucket>/<key> of the resolved configuration, and the one object the
\* invocation wrote went to that bucket and key.
C12_SuccessIffUploaded ==
    \A c \in CallIds :
        entry[c] = "handler" =>
            /\ Is200(result[c]) => hpc[c] = "done"
            /\ hpc[c] = "done" =>
                  (Is200(result[c]) <=> (outcome[c].type = "fulfilled" /\ Resolved(c, "send")))
            /\ Is200(result[c]) =>
                  /\ result[c].value.s3Uri =
                        "s3://" \o ResolvedBucket(c).s \o "/" \o ResolvedKey(c).s
                  /\ result[c].value.body.s3Uri = result[c].value.s3Uri
                  /\ Cardinality(PutsOf(c)) = 1
                  /\ \A i \in PutsOf(c) :
                        /\ s3[i].Bucket = ResolvedBucket(c)
                        /\ s3[i].Key = ResolvedKey(c)
                        /\ s3[i].Body = outcome[c].value.buffer

\* An invocation whose bucket came from the event and whose key came from the
\* environment uploaded its capture and returned 200 with the matching s3Uri.
C12_Witness ==
    \E c \in CallIds :
        /\ entry[c] = "handler"
        /\ hpc[c] = "done"
        /\ Resolved(c, "send")
        /\ Is200(result[c])
        /\ result[c].value.s3Uri = "s3://event-bucket/env.jpg"
        /\ s3[1].Bucket = Str("event-bucket")
        /\ s3[1].Key = Str("env.jpg")

\* C19: whenever goto is begun, the dark color-scheme emulation was begun with
\* prefers-color-scheme: dark and has resolved; if a timezone is requested the
\* timezone emulation was begun with it and has resolved; and the timezone
\* emulation is never begun when no timezone is requested.
C19_PreparationBeforeGoto ==
    \A c \in CallIds :
        pc[c] # "idle" =>
            /\ \A i \in Positions(c, "goto", "begin") :
                  /\ \E j \in Positions(c, "emulateMediaFeatures", "resolve") : j < i
                  /\ BeginArgs(c, "emulateMediaFeatures") =
                        [name |-> "prefers-color-scheme", value |-> "dark"]
                  /\ Configured(options[c].timezone) =>
                        /\ \E j \in Positions(c, "emulateTimezone", "resolve") : j < i
                        /\ BeginArgs(c, "emulateTimezone").timezone = options[c].timezone
            /\ ~Configured(options[c].timezone) => ~Begun(c, "emulateTimezone")
            /\ (Rejected(c, "emulateMediaFeatures") \/ Rejected(c, "emulateTimezone"))
                  => ~Begun(c, "goto")

\* A call that requested America/New_York began its navigation after both
\* emulations had resolved.
C19_Witness ==
    \E c \in CallIds :
        /\ Begun(c, "goto")
        /\ options[c].timezone = Str("America/New_York")
        /\ Resolved(c, "emulateMediaFeatures")
        /\ Resolved(c, "emulateTimezone")
        /\ BeginArgs(c, "emulateTimezone").timezone = Str("America/New_York")

\* The merge of one field: the event's value when the event supplies one,
\* else the environment's.
EventOver(v, e) == IF v # Undefined THEN v ELSE e

\* An invocation lacks a required setting: neither the event nor the
\* environment gives it.
Lacks(v, e) == ~Truthy(v) /\ ~Truthy(e)

\* C13: the handler's configuration is the merge of the event over the
\* environment, field by field: a value the event supplies is used, else the
\* environment variable's (a numeric field left out of both stands for its
\* default); and an invocation that has url, s3Bucket or s3Key from neither
\* ends in failure without having begun any browser operation.
C13_EventOverEnv ==
    \A c \in CallIds :
        entry[c] = "handler" =>
            /\ config[c] # NoConfig =>
                  /\ config[c].url = EventOver(event[c].url, env.SCREENSHOT_URL)
                  /\ config[c].s3Bucket = EventOver(event[c].s3Bucket, env.S3_BUCKET)
                  /\ config[c].s3Key = EventOver(event[c].s3Key, env.S3_KEY)
                  /\ FieldOr(config[c].width, Num(1200)) =
                        FieldOr(EventOver(event[c].width, EnvInt(env.VIEWPORT_WIDTH)), Num(1200))
                  /\ FieldOr(config[c].height, Num(630)) =
                        FieldOr(EventOver(event[c].height, EnvInt(env.VIEWPORT_HEIGHT)), Num(630))
                  /\ config[c].waitForSelector =
                        EventOver(event[c].waitForSelector, env.WAIT_FOR_SELECTOR)
                  /\ config[c].waitForFunction =
                        EventOver(event[c].waitForFunction, env.WAIT_FOR_FUNCTION)
                  /\ FieldOr(config[c].waitForTimeout, Num(0)) =
                        FieldOr(EventOver(event[c].waitForTimeout, EnvInt(env.WAIT_FOR_TIMEOUT)),
                                Num(0))
                  /\ FieldOr(config[c].quality, Num(90)) =
                        FieldOr(EventOver(event[c].quality, EnvInt(env.SCREENSHOT_QUALITY)),
                                Num(90))
                  /\ config[c].timezone = EventOver(event[c].timezone, env.TIMEZONE)
            /\ (\/ Lacks(event[c].url, env.SCREENSHOT_URL)
                \/ Lacks(event[c].s3Bucket, env.S3_BUCKET)
                \/ Lacks(event[c].s3Key, env.S3_KEY)) =>
                  /\ trace[c] = <<>>
                  /\ sessions[c] = NoSession
                  /\ hpc[c] = "done"
                  /\ result[c].value.statusCode = 500

\* v is a number within lo..hi.
NumberIn(v, lo, hi) == v.t = "number" /\ lo <= v.n /\ v.n <= hi

\* v is a number greater than zero.
Positive(v) == v.t = "number" /\ v.n > 0

\* C14: every capture request that reaches the browser has width > 0 and
\* height > 0 (the viewport launch is given, the clip of the capture) and a
\* quality within 0..100, whatever the event and whatever VIEWPORT_WIDTH,
\* VIEWPORT_HEIGHT and SCREENSHOT_QUALITY hold.
C14_ValidRequest ==
    \A c \in CallIds :
        entry[c] = "handler" =>
            /\ \A i \in Positions(c, "launch", "begin") :
                  /\ Positive(trace[c][i].args.defaultViewport.width)
                  /\ Positive(trace[c][i].args.defaultViewport.height)
            /\ \A i \in Positions(c, "screenshot", "begin") :
                  /\ NumberIn(trace[c][i].args.quality, 0, 100)
                  /\ trace[c][i].args.clip # Undefined =>
                        /\ Positive(trace[c][i].args.clip.width)
                        /\ Positive(trace[c][i].args.clip.height)

(***************************************************************************)
(* Concurrent calls of takeScreenshot: NumCalls invocations in progress in *)
(* one process, their awaits interleaved by the event loop in any order.   *)
(***************************************************************************)
NumCalls == 2

\* What the concurrent callers ask for: a request with every gate and the
\* timezone, so that each call goes through every operation.
ConcOptionsSet ==
    {[url |-> Str("https://example.com"),
      width |-> Undefined, height |-> Undefined, quality |-> Undefined,
      waitForSelector |-> Str("#chart"), waitForFunction |-> Str("window.chartReady"),
      waitForTimeout |-> Num(500), fullPage |-> Undefined,
      timezone |-> Str("America/New_York")]}

InitConc == InitCalls(1..NumCalls) /\ env = EmptyEnv /\ cli = NoCli /\ NoClock(1..NumCalls)

NextConc ==
    \/ \E c \in CallIds : TakeScreenshotCallWith(c, ConcOptionsSet) /\ UNCHANGED xVars
    \/ \E c \in CallIds : ExecutablePath(c) /\ UNCHANGED xVars
    \/ \E c \in CallIds : Launch(c) /\ UNCHANGED xVars
    \/ \E c \in CallIds : NewPage(c) /\ UNCHANGED xVars
    \/ \E c \in CallIds : EmulateMediaFeatures(c) /\ UNCHANGED xVars
    \/ \E c \in CallIds : EmulateTimezone(c) /\ UNCHANGED xVars
    \/ \E c \in CallIds : Goto(c) /\ UNCHANGED xVars
    \/ \E c \in CallIds : WaitForSelector(c) /\ UNCHANGED xVars
    \/ \E c \in CallIds : WaitForFunction(c) /\ UNCHANGED xVars
    \/ \E c \in CallIds : SetTimeout(c) /\ UNCHANGED xVars
    \/ \E c \in CallIds : Screenshot(c) /\ UNCHANGED xVars
    \/ \E c \in CallIds : Finally(c) /\ UNCHANGED xVars
    \/ \E c \in CallIds : Close(c) /\ UNCHANGED xVars
    \/ \E c \in CallIds : Settle(c) /\ UNCHANGED xVars

SpecConc == InitConc /\ [][NextConc]_vars

\* Everything call d holds: its locals, its session, its history.
CallState(d) ==
    <<entry[d], options[d], pc[d], awaiting[d], browser[d], completion[d], outcome[d],
      sessions[d], trace[d]>>

\* The sessions are owned: a call refers to no session but the one it
\* launched, and a session has been closed, or asked to close, by its own
\* call only.
SessionsOwned ==
    \A c \in CallIds :
        /\ browser[c] \in {0, c}
        /\ browser[c] = c <=> Resolved(c, "launch")
        /\ sessions[c].state = "none" <=> ~Resolved(c, "launch")
        /\ sessions[c].closeCalls = Count(c, "close", "begin")
        /\ sessions[c].state = "closed" => (Resolved(c, "close") \/ Rejected(c, "close"))

\* A step belongs to one call: it leaves every other call's locals, session
\* and history as they were.
StepOfOneCall ==
    \E c \in CallIds : \A d \in CallIds \ {c} : CallState(d)' = CallState(d)

\* C15: with calls of takeScreenshot interleaved arbitrarily, each call
\* closes only the session it launched, and no step of one call (a failure, a
\* teardown or any other) changes the session or the state of another call.
C15_SessionsIndependent == [](SessionsOwned) /\ [][StepOfOneCall]_vars

\* One call failed at navigation and closed its session while the other
\* call's session stayed open, its navigation still pending.
C15_Witness ==
    \E c, d \in CallIds :
        /\ c # d
        /\ pc[c] = "done"
        /\ Rejected(c, "goto")
        /\ Resolved(c, "close")
        /\ sessions[c].state = "closed"
        /\ pc[d] = "goto"
        /\ awaiting[d]
        /\ sessions[d] = [state |-> "open", closeCalls |-> 0]

(***************************************************************************)
(* The og-lambda command line (src/unnamed/part_000), the CDK app it       *)
(* spawns (src/unnamed/part_004) and the stack that defines the function's *)
(* environment (src/unnamed/part_003).                                     *)
(***************************************************************************)
ENV_TO_CONFIG ==
    [STACK_NAME |-> "stackName",
     SCREENSHOT_URL |-> "screenshotUrl",
     S3_BUCKET |-> "s3Bucket",
     S3_KEY |-> "s3Key",
     VIEWPORT_WIDTH |-> "viewportWidth",
     VIEWPORT_HEIGHT |-> "viewportHeight",
     WAIT_FOR_SELECTOR |-> "waitForSelector",
     WAIT_FOR_FUNCTION |-> "waitForFunction",
     WAIT_FOR_TIMEOUT |-> "waitForTimeout",
     SCHEDULE_RATE_MINUTES |-> "scheduleRateMinutes",
     TIMEZONE |-> "timezone"]

EnvNames == DOMAIN ENV_TO_CONFIG

\* The variables of the command line's environment that some program of the
\* repository reads: those above and the one the CDK app reads besides.
ProcessEnvNames == EnvNames \cup {"SCREENSHOT_QUALITY"}

\* The keys a config file may hold: JSON.parse keeps whatever is written.
FileKeys ==
    {"stackName", "screenshotUrl", "s3Bucket", "s3Key", "viewportWidth", "viewportHeight",
     "waitForSelector", "waitForFunction", "waitForTimeout", "quality",
     "scheduleRateMinutes", "timezone"}

DigitChar(d) ==
    CASE d = 0 -> "0" [] d = 1 -> "1" [] d = 2 -> "2" [] d = 3 -> "3" [] d = 4 -> "4"
      [] d = 5 -> "5" [] d = 6 -> "6" [] d = 7 -> "7" [] d = 8 -> "8" [] d = 9 -> "9"

RECURSIVE DecimalString(_)
DecimalString(n) ==
    IF n < 10 THEN DigitChar(n) ELSE DecimalString(n \div 10) \o DigitChar(n % 10)

\* String(v)
String(v) ==
    CASE v.t = "string" -> v.s
      [] v.t = "number" -> IF v.n < 0 THEN "-" \o DecimalString(-v.n) ELSE DecimalString(v.n)
      [] v.t = "NaN" -> "NaN"
      [] v.t = "undefined" -> "undefined"
      [] v.t = "boolean" -> IF v.b THEN "true" ELSE "false"

\* Mutant: the config file is asked first, the environment only for what the
\* file leaves out.
getConfigValueFileFirst(envName, penv, cfg) ==
    IF envName \in DOMAIN ENV_TO_CONFIG /\ cfg[ENV_TO_CONFIG[envName]] # Undefined
    THEN Str(String(cfg[ENV_TO_CONFIG[envName]]))
    ELSE IF Truthy(penv[envName]) THEN penv[envName]
    ELSE Undefined

\* getConfigValue(envName), with process.env and the loaded config it reads.
getConfigValue(envName, penv, cfg) ==
    IF Truthy(penv[envName]) THEN penv[envName]
    ELSE IF envName \in DOMAIN ENV_TO_CONFIG /\ cfg[ENV_TO_CONFIG[envName]] # Undefined
    THEN Str(String(cfg[ENV_TO_CONFIG[envName]]))
    ELSE Undefined

\* requireConfig(envName) ends the process with status 1.
requireConfigExits(envName, penv, cfg) == ~Truthy(getConfigValue(envName, penv, cfg))

\* The `defaults` table of showConfig.
ShowDefaults ==
    [n \in EnvNames |->
        CASE n = "STACK_NAME" -> Str("og-lambda")
          [] n = "S3_KEY" -> Str("og-image.jpg")
          [] n = "VIEWPORT_WIDTH" -> Str("1200")
          [] n = "VIEWPORT_HEIGHT" -> Str("630")
          [] n = "SCHEDULE_RATE_MINUTES" -> Str("60")
          [] OTHER -> Undefined]

NoLine == [none |-> TRUE]

\* The line showConfig prints for one setting, if it prints one.
ShowLine(envName, penv, cfg) ==
    LET envValue == penv[envName]
        cfgValue == cfg[ENV_TO_CONFIG[envName]]
        defaultValue == ShowDefaults[envName]
    IN  IF Truthy(envValue)
        THEN [key |-> ENV_TO_CONFIG[envName], value |-> envValue.s, source |-> "env"]
        ELSE IF cfgValue # Undefined
        THEN [key |-> ENV_TO_CONFIG[envName], value |-> String(cfgValue), source |-> "config"]
        ELSE IF Truthy(defaultValue)
        THEN [key |-> ENV_TO_CONFIG[envName], value |-> defaultValue.s, source |-> "default"]
        ELSE NoLine

\* The environment deploy and synth build for the CDK process.
ChildEnv(penv, cfg) ==
    [n \in ProcessEnvNames |->
        IF /\ n \in EnvNames
           /\ Truthy(getConfigValue(n, penv, cfg))
           /\ ~Truthy(penv[n])
        THEN getConfigValue(n, penv, cfg)
        ELSE penv[n]]

\* The CDK app stops with status 1 before building the stack.
CdkAppExits(e) == ~Truthy(e.SCREENSHOT_URL) \/ ~Truthy(e.S3_BUCKET)

\* The stack name and the props the CDK app passes to OgLambdaStack.
CdkStackName(e) == Or(e.STACK_NAME, Str("og-lambda"))

\* Mutant: the CDK app passes S3_KEY on as it finds it, without a default.
CdkPropsNoDefaultKey(e) ==
    [screenshotUrl |-> e.SCREENSHOT_URL,
     s3Bucket |-> e.S3_BUCKET,
     s3Key |-> e.S3_KEY,
     viewportWidth |-> EnvInt(e.VIEWPORT_WIDTH),
     viewportHeight |-> EnvInt(e.VIEWPORT_HEIGHT),
     waitForSelector |-> e.WAIT_FOR_SELECTOR,
     waitForFunction |-> e.WAIT_FOR_FUNCTION,
     waitForTimeout |-> EnvInt(e.WAIT_FOR_TIMEOUT),
     quality |-> EnvInt(e.SCREENSHOT_QUALITY),
     timezone |-> e.TIMEZONE,
     scheduleRateMinutes |-> EnvInt(e.SCHEDULE_RATE_MINUTES)]

CdkProps(e) ==
    [screenshotUrl |-> e.SCREENSHOT_URL,
     s3Bucket |-> e.S3_BUCKET,
     s3Key |-> Or(e.S3_KEY, Str("og-image.jpg")),
     viewportWidth |-> EnvInt(e.VIEWPORT_WIDTH),
     viewportHeight |-> EnvInt(e.VIEWPORT_HEIGHT),
     waitForSelector |-> e.WAIT_FOR_SELECTOR,
     waitForFunction |-> e.WAIT_FOR_FUNCTION,
     waitForTimeout |-> EnvInt(e.WAIT_FOR_TIMEOUT),
     quality |-> EnvInt(e.SCREENSHOT_QUALITY),
     timezone |-> e.TIMEZONE,
     scheduleRateMinutes |-> EnvInt(e.SCHEDULE_RATE_MINUTES)]

\* The rate of the schedule rule OgLambdaStack creates.
StackScheduleRate(props) == Default(props.scheduleRateMinutes, Num(60))

\* The `environment` OgLambdaStack gives the function.
StackEnvironment(props) ==
    [SCREENSHOT_URL |-> props.screenshotUrl,
     S3_BUCKET |-> props.s3Bucket,
     S3_KEY |-> props.s3Key,
     VIEWPORT_WIDTH |-> Str(String(Default(props.viewportWidth, Num(1200)))),
     VIEWPORT_HEIGHT |-> Str(String(Default(props.viewportHeight, Num(630)))),
     SCREENSHOT_QUALITY |-> Str(String(Default(props.quality, Num(90)))),
     WAIT_FOR_SELECTOR |->
        IF Truthy(props.waitForSelector) THEN props.waitForSelector ELSE Undefined,
     WAIT_FOR_FUNCTION |->
        IF Truthy(props.waitForFunction) THEN props.waitForFunction ELSE Undefined,
     WAIT_FOR_TIMEOUT |->
        IF Truthy(props.waitForTimeout) THEN Str(String(props.waitForTimeout)) ELSE Undefined,
     TIMEZONE |-> IF Truthy(props.timezone) THEN props.timezone ELSE Undefined]

\* What the command line starts from: its environment and the config file
\* found from the working directory (none: config stays {}).
NoProcessEnv == [n \in ProcessEnvNames |-> Undefined]

RequiredEnv ==
    [NoProcessEnv EXCEPT !["SCREENSHOT_URL"] = Str("https://env.example"),
                         !["S3_BUCKET"] = Str("env-bucket")]

CliEnvSet ==
    {NoProcessEnv,
     RequiredEnv,
     [RequiredEnv EXCEPT !["S3_KEY"] = Str("env.jpg"),
                         !["STACK_NAME"] = Str("env-stack"),
                         !["VIEWPORT_WIDTH"] = Str("800"),
                         !["WAIT_FOR_TIMEOUT"] = Str("250"),
                         !["SCREENSHOT_QUALITY"] = Str("60")],
     [NoProcessEnv EXCEPT !["S3_KEY"] = Str(""),
                          !["WAIT_FOR_SELECTOR"] = Str("#env"),
                          !["TIMEZONE"] = Str("UTC")]}

NoFile == [k \in FileKeys |-> Undefined]

RequiredFile ==
    [NoFile EXCEPT !["screenshotUrl"] = Str("https://file.example"),
                   !["s3Bucket"] = Str("file-bucket")]

CliConfigSet ==
    {NoFile,
     RequiredFile,
     [RequiredFile EXCEPT !["s3Key"] = Str("file.jpg"),
                          !["stackName"] = Str("file-stack"),
                          !["timezone"] = Str("Europe/Paris")],
     [RequiredFile EXCEPT !["viewportWidth"] = Num(1024),
                          !["viewportHeight"] = Num(512),
                          !["waitForTimeout"] = Num(300),
                          !["scheduleRateMinutes"] = Num(30),
                          !["quality"] = Num(75)],
     [RequiredFile EXCEPT !["waitForSelector"] = Str("#file"),
                          !["waitForFunction"] = Str("window.fileReady")]}

\* The events the deployed function is invoked with: the schedule's empty
\* event, and one that names a key.
DeployEventSet == {EmptyEvent, [EmptyEvent EXCEPT !.s3Key = Str("event.jpg")]}

NotYet == [none |-> TRUE]

\* The command line after loadConfig(), before a command runs.
CliStart(penv, cfg) ==
    [phase |-> "start", cmd |-> "", processEnv |-> penv, config |-> cfg,
     shown |-> NotYet, values |-> NotYet, childEnv |-> NotYet, status |-> 0,
     stackName |-> NotYet, props |-> NotYet, environment |-> NotYet]

\* og-lambda config
showConfig ==
    /\ cli.phase = "start"
    /\ cli' = [cli EXCEPT !.phase = "exited", !.cmd = "config",
                          !.shown = [n \in EnvNames |->
                                        ShowLine(n, cli.processEnv, cli.config)]]
    /\ UNCHANGED <<env, entry, now, times>>
    /\ UNCHANGED tsVars
    /\ UNCHANGED hVars

\* deploy() and synth(): the two requireConfig calls, then the environment for
\* the CDK process, then the spawn.
RunCdk(cmd) ==
    /\ cli.phase = "start"
    /\ cli' =
          IF \/ requireConfigExits("SCREENSHOT_URL", cli.processEnv, cli.config)
             \/ requireConfigExits("S3_BUCKET", cli.processEnv, cli.config)
          THEN [cli EXCEPT !.phase = "exited", !.cmd = cmd, !.status = 1]
          ELSE [cli EXCEPT !.phase = "cdk", !.cmd = cmd,
                           !.values = [n \in EnvNames |->
                                          getConfigValue(n, cli.processEnv, cli.config)],
                           !.childEnv = ChildEnv(cli.processEnv, cli.config)]
    /\ UNCHANGED <<env, entry, now, times>>
    /\ UNCHANGED tsVars
    /\ UNCHANGED hVars

deploy == RunCdk("deploy")

synth == RunCdk("synth")

\* The CDK app run by `cdk deploy` or `cdk synth`: it builds the stack from
\* its environment; a deploy gives the function the stack's environment.
CdkApp ==
    /\ cli.phase = "cdk"
    /\ IF CdkAppExits(cli.childEnv)
       THEN /\ cli' = [cli EXCEPT !.phase = "exited", !.status = 1]
            /\ UNCHANGED env
       ELSE /\ cli' = [cli EXCEPT
                  !.phase = IF cli.cmd = "deploy" THEN "deployed" ELSE "synthesized",
                  !.stackName = CdkStackName(cli.childEnv),
                  !.props = CdkProps(cli.childEnv),
                  !.environment = StackEnvironment(CdkProps(cli.childEnv))]
            /\ env' = IF cli.cmd = "deploy"
                      THEN StackEnvironment(CdkProps(cli.childEnv))
                      ELSE env
    /\ UNCHANGED <<entry, now, times>>
    /\ UNCHANGED tsVars
    /\ UNCHANGED hVars

\* The deployed function is invoked.
Invoke(c) ==
    /\ cli.phase = "deployed"
    /\ HandlerWith(c, DeployEventSet)

InitDeploy ==
    /\ InitCalls({1})
    /\ env = EmptyEnv
    /\ cli \in {CliStart(penv, cfg) : penv \in CliEnvSet, cfg \in CliConfigSet}
    /\ NoClock({1})

NextDeploy ==
    \/ showConfig
    \/ deploy
    \/ synth
    \/ CdkApp
    \/ \E c \in CallIds : Invoke(c) /\ UNCHANGED xVars
    \/ \E c \in CallIds : ExecutablePath(c) /\ UNCHANGED xVars
    \/ \E c \in CallIds : Launch(c) /\ UNCHANGED xVars
    \/ \E c \in CallIds : NewPage(c) /\ UNCHANGED xVars
    \/ \E c \in CallIds : EmulateMediaFeatures(c) /\ UNCHANGED xVars
    \/ \E c \in CallIds : EmulateTimezone(c) /\ UNCHANGED xVars
    \/ \E c \in CallIds : Goto(c) /\ UNCHANGED xVars
    \/ \E c \in CallIds : WaitForSelector(c) /\ UNCHANGED xVars
    \/ \E c \in CallIds : WaitForFunction(c) /\ UNCHANGED xVars
    \/ \E c \in CallIds : SetTimeout(c) /\ UNCHANGED xVars
    \/ \E c \in CallIds : Screenshot(c) /\ UNCHANGED xVars
    \/ \E c \in CallIds : Finally(c) /\ UNCHANGED xVars
    \/ \E c \in CallIds : Close(c) /\ UNCHANGED xVars
    \/ \E c \in CallIds : Settle(c) /\ UNCHANGED xVars
    \/ \E c \in CallIds : HandlerResume(c) /\ UNCHANGED xVars
    \/ \E c \in CallIds : Send(c) /\ UNCHANGED xVars

SpecDeploy == InitDeploy /\ [][NextDeploy]_vars

\* An environment variable counts as set when it holds a non-empty string.
IsSet(v) == v.t = "string" /\ v.s # ""

\* The built-in default showConfig falls back to, where there is one.
BuiltInDefault(n) ==
    CASE n = "STACK_NAME" -> "og-lambda"
      [] n = "S3_KEY" -> "og-image.jpg"
      [] n = "VIEWPORT_WIDTH" -> "1200"
      [] n = "VIEWPORT_HEIGHT" -> "630"
      [] n = "SCHEDULE_RATE_MINUTES" -> "60"
      [] OTHER -> ""

\* C16: for every setting of ENV_TO_CONFIG, showConfig and getConfigValue
\* resolve to the environment variable when it is set (non-empty), to the
\* config file's value only when it is not, and showConfig to the built-in
\* default only when neither is there; the environment deploy and synth hand
\* to the CDK process keeps every environment variable that is set.
C16_EnvOverridesFile ==
    /\ cli.phase # "absent" /\ cli.shown # NotYet =>
          \A n \in EnvNames :
              LET e == cli.processEnv[n]
                  f == cli.config[ENV_TO_CONFIG[n]]
              IN  IF IsSet(e)
                  THEN cli.shown[n] =
                          [key |-> ENV_TO_CONFIG[n], value |-> e.s, source |-> "env"]
                  ELSE IF f # Undefined
                  THEN cli.shown[n] =
                          [key |-> ENV_TO_CONFIG[n], value |-> String(f), source |-> "config"]
                  ELSE IF BuiltInDefault(n) # ""
                  THEN cli.shown[n] =
                          [key |-> ENV_TO_CONFIG[n], value |-> BuiltInDefault(n),
                           source |-> "default"]
                  ELSE cli.shown[n] = NoLine
    /\ cli.phase # "absent" /\ cli.values # NotYet =>
          \A n \in EnvNames :
              LET e == cli.processEnv[n]
                  f == cli.config[ENV_TO_CONFIG[n]]
              IN  cli.values[n] =
                      IF IsSet(e) THEN e
                      ELSE IF f # Undefined THEN Str(String(f))
                      ELSE Undefined
    /\ cli.phase # "absent" /\ cli.childEnv # NotYet =>
          \A n \in ProcessEnvNames :
              IsSet(cli.processEnv[n]) => cli.childEnv[n] = cli.processEnv[n]

\* deploy ran with S3_KEY set in the environment and s3Key in the config
\* file: the CDK process got the environment's key, and the file's timezone,
\* which the environment left out.
C16_Witness ==
    /\ cli.phase = "cdk"
    /\ cli.cmd = "deploy"
    /\ cli.processEnv["S3_KEY"] = Str("env.jpg")
    /\ cli.config["s3Key"] = Str("file.jpg")
    /\ cli.values["S3_KEY"] = Str("env.jpg")
    /\ cli.childEnv["S3_KEY"] = Str("env.jpg")
    /\ cli.childEnv["TIMEZONE"] = Str("Europe/Paris")

\* The environment variable the README's table gives for a config key.
ReadmeEnvVar(k) ==
    CASE k = "screenshotUrl" -> "SCREENSHOT_URL"
      [] k = "s3Bucket" -> "S3_BUCKET"
      [] k = "s3Key" -> "S3_KEY"
      [] k = "stackName" -> "STACK_NAME"
      [] k = "viewportWidth" -> "VIEWPORT_WIDTH"
      [] k = "viewportHeight" -> "VIEWPORT_HEIGHT"
      [] k = "waitForSelector" -> "WAIT_FOR_SELECTOR"
      [] k = "waitForFunction" -> "WAIT_FOR_FUNCTION"
      [] k = "waitForTimeout" -> "WAIT_FOR_TIMEOUT"
      [] k = "quality" -> "SCREENSHOT_QUALITY"
      [] k = "scheduleRateMinutes" -> "SCHEDULE_RATE_MINUTES"
      [] k = "timezone" -> "TIMEZONE"

\* The config keys of the README's table.
ReadmeKeys ==
    {"screenshotUrl", "s3Bucket", "s3Key", "stackName", "viewportWidth", "viewportHeight",
     "waitForSelector", "waitForFunction", "waitForTimeout", "quality",
     "scheduleRateMinutes", "timezone"}

\* Key k is set in the config file and its variable is not in the environment.
OnlyInFile(k) ==
    cli.config[k] # Undefined /\ cli.processEnv[ReadmeEnvVar(k)] = Undefined

\* C17: every config key of the README's table that is set only in the config
\* file takes effect on deploy and synth: the CDK process receives its value
\* in the corresponding environment variable, and the stack built from it
\* carries the value (in the function's environment, or as the stack's name
\* or schedule rate for stackName and scheduleRateMinutes).
C17_FileKeysTakeEffect ==
    \A k \in ReadmeKeys :
        (cli.phase # "absent" /\ OnlyInFile(k)) =>
            LET text == Str(String(cli.config[k])) IN
            /\ cli.childEnv # NotYet => cli.childEnv[ReadmeEnvVar(k)] = text
            /\ cli.environment # NotYet =>
                  CASE k = "stackName" -> cli.stackName = text
                    [] k = "scheduleRateMinutes" ->
                          StackScheduleRate(cli.props) = cli.config[k]
                    [] OTHER -> cli.environment[ReadmeEnvVar(k)] = text

\* No key was given where the command line looks for one: neither S3_KEY in
\* its environment nor s3Key in the config file.
NoKeyConfigured == ~IsSet(cli.processEnv["S3_KEY"]) /\ cli.config["s3Key"] = Undefined

\* C18: when no key is given by the S3_KEY environment variable or the config
\* file, the stack gives the function the key og-image.jpg, and an invocation
\* whose event names no key either resolves to og-image.jpg in the configured
\* bucket: it does not fail for want of a key, and what it uploads goes there.
C18_DefaultKey ==
    (cli.phase # "absent" /\ cli.environment # NotYet /\ NoKeyConfigured) =>
        /\ cli.environment.S3_KEY = Str("og-image.jpg")
        /\ cli.environment.S3_BUCKET = cli.values["S3_BUCKET"]
        /\ \A c \in CallIds :
              (entry[c] = "handler" /\ ~IsSet(event[c].s3Key)) =>
                  /\ config[c] # NoConfig
                  /\ config[c].s3Key = Str("og-image.jpg")
                  /\ config[c].s3Bucket = cli.values["S3_BUCKET"]
                  /\ hpc[c] = "done" => (Is200(result[c]) <=> PutsOf(c) # {} /\ Resolved(c, "send"))
                  /\ \A i \in PutsOf(c) :
                        /\ s3[i].Key = Str("og-image.jpg")
                        /\ s3[i].Bucket = cli.values["S3_BUCKET"]
                  /\ Is200(result[c]) =>
                        result[c].value.s3Uri =
                            "s3://" \o cli.values["S3_BUCKET"].s \o "/og-image.jpg"

\* A function deployed from a config file that names only the url and the
\* bucket was invoked by the schedule and wrote og-image.jpg to that bucket.
C18_Witness ==
    \E c \in CallIds :
        /\ cli.phase = "deployed"
        /\ cli.config = RequiredFile
        /\ cli.processEnv = NoProcessEnv
        /\ event[c] = EmptyEvent
        /\ hpc[c] = "done"
        /\ Is200(result[c])
        /\ s3[1].Key = Str("og-image.jpg")
        /\ s3[1].Bucket = Str("file-bucket")
        /\ result[c].value.s3Uri = "s3://file-bucket/og-image.jpg"

(***************************************************************************)
(* Time.  page.goto, page.waitForSelector and page.waitForFunction are     *)
(* given { timeout: 30000 }: the library rejects the call with a           *)
(* TimeoutError when that many milliseconds have passed since the call;    *)
(* setTimeout(resolve, waitForTimeout) resolves once waitForTimeout        *)
(* milliseconds have passed.  The clock advances in steps of TickMs while  *)
(* one of these four is pending; the other operations carry no bound in    *)
(* the source and are not timed here.                                      *)
(***************************************************************************)
TickMs == 10000

TimeoutOps == {"goto", "waitForSelector", "waitForFunction"}

TimedOps == TimeoutOps \cup {"setTimeout"}

\* The request of the timed calls: every gate, a settle delay of one tick.
TimedOptionsSet ==
    {[url |-> Str("https://example.com"),
      width |-> Undefined, height |-> Undefined, quality |-> Undefined,
      waitForSelector |-> Str("#chart"), waitForFunction |-> Str("window.chartReady"),
      waitForTimeout |-> Num(10000), fullPage |-> Undefined,
      timezone |-> Str("America/New_York")]}

\* The clock when the pending operation of call c was begun.
BeganAt(c) == times[c][Len(times[c])]

\* The pending goto or wait of call c has a timeout: the library takes
\* { timeout: 0 } as none.
HasTimeout(c) == trace[c][Len(trace[c])].args.timeout > 0

\* Mutant: one budget for the whole page load, counted from the start of the
\* navigation.
DeadlineFromNavigation(c) ==
    times[c][CHOOSE i \in Positions(c, "goto", "begin") : TRUE]
        + trace[c][Len(trace[c])].args.timeout

\* The instant at which the pending goto or wait of call c times out: the
\* timeout it was called with, counted from the call.
Deadline(c) == BeganAt(c) + trace[c][Len(trace[c])].args.timeout

\* Mutant: the timer is due as soon as it is set.
DueAtOnce(c) == BeganAt(c)

\* The instant at which the pending setTimeout of call c is due.
Due(c) == BeganAt(c) + trace[c][Len(trace[c])].args.ms.n

\* What the clock allows of a step of call c that settles a timed operation,
\* and the stamp of the entry the step adds to the history.
Timed(c) ==
    /\ now' = now
    /\ times' = [times EXCEPT ![c] =
           IF Len(trace'[c]) > Len(trace[c]) THEN Append(@, now) ELSE @]
    /\ Len(trace'[c]) > Len(trace[c]) =>
          LET e == trace'[c][Len(trace'[c])] IN
          CASE e.ev = "resolve" /\ e.op = "setTimeout" -> now >= Due(c)
            [] e.ev = "resolve" /\ e.op \in TimeoutOps -> HasTimeout(c) => now <= Deadline(c)
            [] e.ev = "reject" /\ e.op \in TimeoutOps /\ e.args.name = "TimeoutError" ->
                  HasTimeout(c) /\ now = Deadline(c)
            [] OTHER -> TRUE

\* The instants ahead at which a pending timeout or timer is to fire.
PendingInstants ==
    {Deadline(c) : c \in {d \in CallIds :
                            awaiting[d] /\ pc[d] \in TimeoutOps /\ HasTimeout(d)}}
    \cup {Due(c) : c \in {d \in CallIds : awaiting[d] /\ pc[d] = "setTimeout"}}

Earliest(S) == CHOOSE t \in S : \A u \in S : t <= u

\* Time passes while a timeout or a timer is pending: by TickMs, or up to the
\* earliest pending instant if that comes first.
Tick ==
    /\ PendingInstants # {}
    /\ now < Earliest(PendingInstants)
    /\ now' = IF now + TickMs <= Earliest(PendingInstants)
              THEN now + TickMs
              ELSE Earliest(PendingInstants)
    /\ UNCHANGED <<env, entry, cli, times>>
    /\ UNCHANGED tsVars
    /\ UNCHANGED hVars

InitTimed == InitCalls({1}) /\ env = EmptyEnv /\ cli = NoCli /\ NoClock({1})

NextTimed ==
    \/ Tick
    \/ \E c \in CallIds : TakeScreenshotCallWith(c, TimedOptionsSet) /\ Timed(c) /\ UNCHANGED cli
    \/ \E c \in CallIds : ExecutablePath(c) /\ Timed(c) /\ UNCHANGED cli
    \/ \E c \in CallIds : Launch(c) /\ Timed(c) /\ UNCHANGED cli
    \/ \E c \in CallIds : NewPage(c) /\ Timed(c) /\ UNCHANGED cli
    \/ \E c \in CallIds : EmulateMediaFeatures(c) /\ Timed(c) /\ UNCHANGED cli
    \/ \E c \in CallIds : EmulateTimezone(c) /\ Timed(c) /\ UNCHANGED cli
    \/ \E c \in CallIds : Goto(c) /\ Timed(c) /\ UNCHANGED cli
    \/ \E c \in CallIds : WaitForSelector(c) /\ Timed(c) /\ UNCHANGED cli
    \/ \E c \in CallIds : WaitForFunction(c) /\ Timed(c) /\ UNCHANGED cli
    \/ \E c \in CallIds : SetTimeout(c) /\ Timed(c) /\ UNCHANGED cli
    \/ \E c \in CallIds : Screenshot(c) /\ Timed(c) /\ UNCHANGED cli
    \/ \E c \in CallIds : Finally(c) /\ Timed(c) /\ UNCHANGED cli
    \/ \E c \in CallIds : Close(c) /\ Timed(c) /\ UNCHANGED cli
    \/ \E c \in CallIds : Settle(c) /\ Timed(c) /\ UNCHANGED cli

SpecTimed == InitTimed /\ [][NextTimed]_vars

\* How long the operation settled at entry i of call c's history took.
Took(c, i) == times[c][i] - times[c][i - 1]

\* C20: navigation, selector wait and predicate wait each have a ceiling of
\* 30000 ms of their own, counted from the start of that stage: a stage that
\* is pending or has resolved has taken at most 30000 ms, and a stage times
\* out exactly 30000 ms after it began, however long the stages before it
\* took; so the capture begins at most 90000 ms plus the settle delay after
\* the navigation began.
C20_PerStageTimeouts ==
    \A c \in CallIds :
        /\ Len(times[c]) = Len(trace[c])
        /\ \A i \in 1..Len(trace[c]) :
              LET e == trace[c][i] IN
              /\ (e.op \in TimeoutOps /\ e.ev = "begin") => e.args.timeout = 30000
              /\ (e.op \in TimeoutOps /\ e.ev = "resolve") => Took(c, i) <= 30000
              /\ (e.op \in TimeoutOps /\ e.ev = "reject" /\ e.args.name = "TimeoutError")
                    => Took(c, i) = 30000
        /\ (awaiting[c] /\ pc[c] \in TimeoutOps) => now - BeganAt(c) <= 30000
        /\ \A i \in Positions(c, "goto", "begin") :
              \A j \in Positions(c, "screenshot", "begin") :
                  times[c][j] - times[c][i] <= 90000 + options[c].waitForTimeout.n

\* Navigation, selector wait and predicate wait each took their full 30000 ms
\* and resolved, the settle delay followed, and the capture began 100000 ms
\* after the navigation had begun.
C20_Witness ==
    \E c \in CallIds :
        /\ Begun(c, "screenshot")
        /\ \A op \in TimeoutOps :
              \A i \in Positions(c, op, "resolve") : Took(c, i) = 30000
        /\ \A i \in Positions(c, "setTimeout", "resolve") : Took(c, i) = 10000
        /\ \A i \in Positions(c, "goto", "begin") :
              \A j \in Positions(c, "screenshot", "begin") :
                  times[c][j] - times[c][i] = 100000

\* The last entry of call c's history before position i that settled one of
\* the readiness stages (navigation, selector wait, predicate wait).
LastGateSettled(c, i) ==
    CHOOSE k \in 1..(i - 1) :
        /\ trace[c][k].op \in TimeoutOps /\ trace[c][k].ev = "resolve"
        /\ \A m \in (k + 1)..(i - 1) : ~(trace[c][m].op \in TimeoutOps)

\* C21: with waitForTimeout greater than zero, the settle delay is begun only
\* after navigation and every configured wait have resolved, it never rejects
\* and nothing is begun while it is pending, and the capture begins no earlier
\* than waitForTimeout milliseconds after the last of those gates completed.
C21_SettleDelay ==
    \A c \in CallIds :
        (pc[c] # "idle" /\ DelayConfigured(options[c].waitForTimeout)) =>
            /\ ~Rejected(c, "setTimeout")
            /\ \A i \in Positions(c, "setTimeout", "begin") :
                  /\ \E k \in Positions(c, "goto", "resolve") : k < i
                  /\ Configured(options[c].waitForSelector) =>
                        \E k \in Positions(c, "waitForSelector", "resolve") : k < i
                  /\ Configured(options[c].waitForFunction) =>
                        \E k \in Positions(c, "waitForFunction", "resolve") : k < i
                  /\ trace[c][i].args.ms = options[c].waitForTimeout
                  /\ i < Len(trace[c]) =>
                        (trace[c][i + 1].op = "setTimeout" /\ trace[c][i + 1].ev = "resolve")
            /\ \A j \in Positions(c, "screenshot", "begin") :
                  /\ Resolved(c, "setTimeout")
                  /\ times[c][j] - times[c][LastGateSettled(c, j)]
                        >= options[c].waitForTimeout.n

\* The capture began exactly the settle delay of 10000 ms after the predicate
\* wait, the last gate, had resolved.
C21_Witness ==
    \E c \in CallIds :
        /\ Begun(c, "screenshot")
        /\ options[c].waitForTimeout = Num(10000)
        /\ Resolved(c, "waitForFunction")
        /\ \A j \in Positions(c, "screenshot", "begin") :
              \A k \in Positions(c, "waitForFunction", "resolve") :
                  times[c][j] - times[c][k] = 10000

\* C22: a call in which a stage failed ends by rejecting with that stage's
\* error, whether the close that follows succeeds or fails; and a call in
\* which every stage, the capture included, succeeded ends by fulfilling with
\* the captured image.
C22_StageErrorSurfaces ==
    \A c \in CallIds :
        pc[c] = "done" =>
            /\ StageFailures(c) # {} =>
                  outcome[c] = [type |-> "rejected", error |-> StageError(c)]
            /\ Resolved(c, "screenshot") =>
                  /\ outcome[c].type = "fulfilled"
                  /\ outcome[c].value.contentType = "image/jpeg"
                  /\ outcome[c].value.buffer.session = c

\* C23: a numeric field the event carries (width, height, waitForTimeout,
\* quality) is the value takeScreenshot works with, 0 included; the
\* environment variable counts only when the event leaves the field out.
C23_EventNumbersKept ==
    \A c \in CallIds :
        (entry[c] = "handler" /\ config[c] # NoConfig) =>
            /\ event[c].width # Undefined =>
                  FieldOr(options[c].width, Num(1200)) = event[c].width
            /\ event[c].height # Undefined =>
                  FieldOr(options[c].height, Num(630)) = event[c].height
            /\ event[c].waitForTimeout # Undefined =>
                  FieldOr(options[c].waitForTimeout, Num(0)) = event[c].waitForTimeout
            /\ event[c].quality # Undefined =>
                  FieldOr(options[c].quality, Num(90)) = event[c].quality
            /\ event[c].width = Undefined =>
                  options[c].width = EnvInt(env.VIEWPORT_WIDTH)
            /\ event[c].height = Undefined =>
                  options[c].height = EnvInt(env.VIEWPORT_HEIGHT)
            /\ event[c].waitForTimeout = Undefined =>
                  options[c].waitForTimeout = EnvInt(env.WAIT_FOR_TIMEOUT)
            /\ event[c].quality = Undefined =>
                  options[c].quality = EnvInt(env.SCREENSHOT_QUALITY)

\* C24: in one handler invocation a PutObject is issued only after the
\* invocation's browser session has been closed (its close was awaited and
\* resolved), and at most one PutObject is issued.
C24_UploadAfterClose ==
    \A c \in CallIds :
        entry[c] = "handler" =>
            /\ Count(c, "send", "begin") <= 1
            /\ Cardinality(PutsOf(c)) <= 1
            /\ Cardinality(PutsOf(c)) = Count(c, "send", "begin")
            /\ sessions[c].state = "open" => (~Begun(c, "send") /\ PutsOf(c) = {})
            /\ \A i \in Positions(c, "send", "begin") :
                  /\ \E k \in Positions(c, "close", "resolve") : k < i
                  /\ sessions[c].state = "closed"
                  /\ pc[c] = "done"

\* An invocation captured, closed its session and then uploaded once.
C24_Witness ==
    \E c \in CallIds :
        /\ entry[c] = "handler"
        /\ hpc[c] = "done"
        /\ Resolved(c, "send")
        /\ sessions[c] = [state |-> "closed", closeCalls |-> 1]
        /\ Len(s3) = 1
        /\ trace[c][Len(trace[c]) - 2].op = "close"

(***************************************************************************)
(* Termination.  The event loop runs a continuation once its promise has   *)
(* settled, and the library's timers fire when due.  The operations that   *)
(* take no timeout are taken to complete, one way or the other; of goto    *)
(* and the two waits only the timeout is taken for granted: the page may   *)
(* never become idle, the selector never appear, the predicate never hold. *)
(***************************************************************************)
\* A step of call c in the timed system.
TimedStep(c) ==
    /\ \/ ExecutablePath(c) \/ Launch(c) \/ NewPage(c) \/ EmulateMediaFeatures(c)
       \/ EmulateTimezone(c) \/ Goto(c) \/ WaitForSelector(c) \/ WaitForFunction(c)
       \/ SetTimeout(c) \/ Screenshot(c) \/ Finally(c) \/ Close(c) \/ Settle(c)
    /\ Timed(c)
    /\ UNCHANGED cli

\* Call c goes on where nothing but the event loop is waited for: it makes the
\* next call, an operation without a timeout completes, the timer that is due
\* resolves, the promise settles.
Progress(c) ==
    /\ TimedStep(c)
    /\ \/ ~awaiting[c]
       \/ pc[c] \notin TimeoutOps

\* The timeout of the pending goto or wait of call c fires.
TimeoutFires(c) ==
    /\ TimedStep(c)
    /\ awaiting[c]
    /\ pc[c] \in TimeoutOps
    /\ trace'[c][Len(trace'[c])].ev = "reject"
    /\ trace'[c][Len(trace'[c])].args.name = "TimeoutError"

SpecLive ==
    /\ SpecTimed
    /\ WF_vars(Tick)
    /\ \A c \in {1} : WF_vars(Progress(c)) /\ WF_vars(TimeoutFires(c))

\* C25: every takeScreenshot call that was made eventually terminates, its
\* promise fulfilled with a result or rejected with an error, provided the
\* operations without a timeout complete and timeouts fire; goto and the two
\* waits need never resolve.
C25_Terminates ==
    \A c \in {1} :
        (entry[c] = "direct") ~>
            (pc[c] = "done" /\ outcome[c].type \in {"fulfilled", "rejected"})

\* The page became idle and the selector appeared at the last moment, the
\* predicate never held: the wait timed out 90000 ms after the navigation
\* began and the call is over, rejected with the TimeoutError.
C25_Witness ==
    \E c \in CallIds :
        /\ pc[c] = "done"
        /\ outcome[c].type = "rejected"
        /\ outcome[c].error.name = "TimeoutError"
        /\ Rejected(c, "waitForFunction")
        /\ now = 90000

(***************************************************************************)
(* findConfigFile.  A directory is the sequence of the names on its        *)
(* absolute path, as process.cwd() gives it; the root is the empty         *)
(* sequence.  The filesystem is the set of the paths that exist.           *)
(***************************************************************************)
CONFIG_FILENAMES == <<".og-lambda.json", "og-lambda.config.json">>

MaxDepth == 2

DirNames == {"srv", "app"}

RECURSIVE DirsOfDepth(_)
DirsOfDepth(n) ==
    IF n = 0 THEN {<<>>}
    ELSE {Append(d, name) : d \in DirsOfDepth(n - 1), name \in DirNames}

\* The directories the tool may be started in.
StartDirs == UNION {DirsOfDepth(n) : n \in 0..MaxDepth}

\* path.parse(dir).root of an absolute path.
ParseRoot(dir) == <<>>

\* path.dirname(dir): the parent; of the root, the root.
Dirname(dir) == IF dir = <<>> THEN <<>> ELSE SubSeq(dir, 1, Len(dir) - 1)

\* path.join(dir, filename)
Join(dir, filename) == Append(dir, filename)

\* startDir and its ancestors, the filesystem root among them.
Ancestors(dir) == {SubSeq(dir, 1, n) : n \in 0..Len(dir)}

\* The config files that may exist in startDir and above.
Candidates(dir) ==
    {Join(d, CONFIG_FILENAMES[i]) : d \in Ancestors(dir), i \in DOMAIN CONFIG_FILENAMES}

Null == [null |-> TRUE]

\* findConfigFile(startDir) is entered: `let dir = startDir`, `const { root } = parse(dir)`.
FindStart(startDir, files) ==
    [phase |-> "while", startDir |-> startDir, files |-> files,
     dir |-> startDir, root |-> ParseRoot(startDir), i |-> 1, ret |-> Null]

\* while (dir !== root): into the body, or past the loop to `return null`.
WhileTest ==
    /\ cli.phase = "while"
    /\ cli' = IF cli.dir # cli.root
              THEN [cli EXCEPT !.phase = "for", !.i = 1]
              ELSE [cli EXCEPT !.phase = "returned", !.ret = Null]
    /\ UNCHANGED <<env, entry, now, times>>
    /\ UNCHANGED tsVars
    /\ UNCHANGED hVars

\* One round of `for (const filename of CONFIG_FILENAMES)`:
\* if (existsSync(join(dir, filename))) return configPath
ExistsSync ==
    /\ cli.phase = "for"
    /\ cli.i <= Len(CONFIG_FILENAMES)
    /\ LET configPath == Join(cli.dir, CONFIG_FILENAMES[cli.i]) IN
       cli' = IF configPath \in cli.files
              THEN [cli EXCEPT !.phase = "returned", !.ret = [path |-> configPath]]
              ELSE [cli EXCEPT !.i = @ + 1]
    /\ UNCHANGED <<env, entry, now, times>>
    /\ UNCHANGED tsVars
    /\ UNCHANGED hVars

\* The filenames are used up: dir = dirname(dir), and back to the test.
DirnameStep ==
    /\ cli.phase = "for"
    /\ cli.i > Len(CONFIG_FILENAMES)
    /\ cli' = [cli EXCEPT !.phase = "while", !.dir = Dirname(cli.dir)]
    /\ UNCHANGED <<env, entry, now, times>>
    /\ UNCHANGED tsVars
    /\ UNCHANGED hVars

InitFind ==
    /\ InitCalls({1})
    /\ env = EmptyEnv
    /\ NoClock({1})
    /\ \E startDir \in StartDirs :
          \E files \in SUBSET Candidates(startDir) :
              cli = FindStart(startDir, files)

NextFind ==
    \/ WhileTest
    \/ ExistsSync
    \/ DirnameStep

SpecFind == InitFind /\ [][NextFind]_vars

\* The directories among startDir and its ancestors that hold a config file.
Holding(startDir, files) ==
    {d \in Ancestors(startDir) :
        \E i \in DOMAIN CONFIG_FILENAMES : Join(d, CONFIG_FILENAMES[i]) \in files}

\* The nearest of them: the one deepest down the path.
Nearest(S) == CHOOSE d \in S : \A e \in S : Len(e) <= Len(d)

\* The file of directory d to prefer: the first of CONFIG_FILENAMES it holds.
Preferred(d, files) ==
    Join(d, CONFIG_FILENAMES[
        CHOOSE i \in DOMAIN CONFIG_FILENAMES :
            /\ Join(d, CONFIG_FILENAMES[i]) \in files
            /\ \A j \in 1..(i - 1) : Join(d, CONFIG_FILENAMES[j]) \notin files])

\* C26: findConfigFile(startDir) returns the config file of the nearest
\* directory, among startDir and all its ancestors including the filesystem
\* root, that holds .og-lambda.json or og-lambda.config.json, .og-lambda.json
\* preferred; it returns null only when none of these directories holds
\* either.
C26_NearestConfig ==
    cli.phase = "returned" =>
        LET S == Holding(cli.startDir, cli.files) IN
        cli.ret = IF S = {} THEN Null ELSE [path |-> Preferred(Nearest(S), cli.files)]
====
